---- MODULE Spec2Model ----
(***************************************************************************)
(* Solar-farm monitoring server: ESP32 electrical readings over HTTP       *)
(* (routes/panels.ts), Raspberry Pi vision results over socket.io          *)
(* (index.ts) and over HTTP (routes/solarScans.ts), the in-memory replay   *)
(* backlog, and the database seed script (prisma/seed.ts).                 *)
(*                                                                         *)
(* Units.  Voltages are integers in tenths of a volt, currents in mA,      *)
(* powers in mW, times in ms.  Panel.currentOutput (watts in the source)   *)
(* is stored multiplied by OutputScale, Panel.efficiency (percent in the   *)
(* source) multiplied by EffScale(maxOutput), so that the divisions of    *)
(* the source by 1, 2 or 3 panels stay exact.                              *)
(***************************************************************************)
EXTENDS Integers, Sequences, FiniteSets, TLC

\* ------------------------------------------------------------------ bounds
MaxClock == 30001
MaxRaceClock == 1
MaxReq == 2
MaxSeedRuns == 1
MaxReadings == 1
MaxIngest == 52
MaxScans == 3
MaxObservers == 1
MaxCrops == 2
MaxVisionScans == 2
MaxHistoryReadings == 3
MaxRangeReadings == 2
MaxReceiverScans == 3
MaxClientScans == 4

ReqIds == 1..MaxReq

\* --------------------------------------------------------------- constants
DEVICE_ONLINE_THRESHOLD_MS == 30000
MAX_PI_RESULTS == 50
\* thresholds in tenths of a volt: 6 V and 4.5 V
MIN_HEALTHY_PANEL_VOLTAGE == 60
MIN_WARNING_PANEL_VOLTAGE == 45
SEED_MAX_OUTPUT == 400
OutputScale == 6000
EffScale(maxOutput) == 60 * maxOutput

deviceToPanelMap ==
  [ESP_01 |-> <<"PNL-A0101", "PNL-A0102", "PNL-A0103">>,
   ESP_02 |-> <<"PNL-A0201", "PNL-A0202", "PNL-A0203">>,
   ESP_03 |-> <<"PNL-A0301", "PNL-A0302", "PNL-A0303">>]

MappedDeviceIds == DOMAIN deviceToPanelMap

SeqRange(s) == {s[i] : i \in 1..Len(s)}

\* panelToDeviceMap[panelId], "" when the panel belongs to no device
panelToDeviceMap(panelId) ==
  IF \E d \in MappedDeviceIds : panelId \in SeqRange(deviceToPanelMap[d])
  THEN CHOOSE d \in MappedDeviceIds : panelId \in SeqRange(deviceToPanelMap[d])
  ELSE ""

\* the order in which the seed creates the panels (zone A, then zone B)
SeedOrder ==
  <<"PNL-A0101", "PNL-A0102", "PNL-A0103",
    "PNL-A0201", "PNL-A0202", "PNL-A0203",
    "PNL-A0301", "PNL-A0302", "PNL-A0303",
    "PNL-B0101">>

PanelIds == SeqRange(SeedOrder)

\* Math.random() of the seed, in hundredths
SeedRands == {50}

Min(a, b) == IF a < b THEN a ELSE b
Max(a, b) == IF a > b THEN a ELSE b

\* ------------------------------------------------------------ JSON values
JNum(n) == [t |-> "number", fin |-> TRUE, n |-> n, s |-> <<>>]
JInf == [t |-> "number", fin |-> FALSE, n |-> 0, s |-> <<>>]
JStr(s) == [t |-> "string", fin |-> FALSE, n |-> 0, s |-> s]
JUndef == [t |-> "undefined", fin |-> FALSE, n |-> 0, s |-> <<>>]
NaN == [fin |-> FALSE, n |-> 0]
Fin(n) == [fin |-> TRUE, n |-> n]

Digits == <<"0", "1", "2", "3", "4", "5", "6", "7", "8", "9">>
IsDigit(c) == \E i \in 1..10 : Digits[i] = c
DigitVal(c) == (CHOOSE i \in 1..10 : Digits[i] = c) - 1

RECURSIVE TrimLeft(_)
TrimLeft(s) == IF s # <<>> /\ Head(s) = " " THEN TrimLeft(Tail(s)) ELSE s
RECURSIVE TrimRight(_)
TrimRight(s) ==
  IF s # <<>> /\ s[Len(s)] = " " THEN TrimRight(SubSeq(s, 1, Len(s) - 1)) ELSE s
Trim(s) == TrimRight(TrimLeft(s))

RECURSIVE DigitsValue(_)
DigitsValue(s) ==
  IF s = <<>> THEN 0
  ELSE 10 * DigitsValue(SubSeq(s, 1, Len(s) - 1)) + DigitVal(s[Len(s)])

\* Number(string) for the strings of the model: optional sign and digits
StringToNumber(s) ==
  LET t == Trim(s)
      neg == t # <<>> /\ Head(t) = "-"
      body == IF neg THEN Tail(t) ELSE t
  IN IF t = <<>> THEN Fin(0)
     ELSE IF body # <<>> /\ \A i \in 1..Len(body) : IsDigit(body[i])
     THEN Fin(IF neg THEN 0 - DigitsValue(body) ELSE DigitsValue(body))
     ELSE NaN

parseNumber_Lenient(value) ==
  IF value.t = "number" THEN [fin |-> value.fin, n |-> value.n]
  ELSE IF value.t = "string" /\ Trim(value.s) # <<>>
  THEN (IF StringToNumber(value.s).fin THEN StringToNumber(value.s) ELSE Fin(0))
  ELSE NaN

parseNumber(value) ==
  IF value.t = "number" THEN [fin |-> value.fin, n |-> value.n]
  ELSE IF value.t = "string" /\ Trim(value.s) # <<>> THEN StringToNumber(value.s)
  ELSE NaN

\* ------------------------------------------------------------------ state
VARIABLES
  clock,            \* Date.now()
  solarPanel,       \* Panel table: panelId -> row
  seed,             \* position of the seed script
  espDevice,        \* Device table: deviceId -> row
  espSensorReading, \* Reading table, in insertion order
  powerGeneration,  \* power-generation series: timestamp -> value
  req,              \* in-flight POST /sensor-update handlers
  live,             \* the GET /live-status handler
  listing,          \* the GET / (panel listing) handler
  solarScan,        \* Scan table, in insertion order: the id is the position
  panelDetection,   \* PanelDetection table
  pi,               \* the pi_analysis_result handler
  scanReq,          \* the POST /api/solar-scans handler
  piResults,        \* in-memory backlog of results, newest first
  sockets,          \* connected browser sockets and what each was sent
  ingested,         \* history: ids of the results in the order of their append
  dashboard,        \* the Dashboard page of the browser
  receiver          \* the usePiReceiver hook of the browser

sensorVars == <<clock, solarPanel, seed, espDevice, espSensorReading,
                powerGeneration, req>>
dbVars == <<solarPanel, espDevice, espSensorReading, powerGeneration>>
clientVars == <<dashboard, receiver>>
queryVars == <<live, listing, clientVars>>
visionVars == <<solarScan, panelDetection, pi, scanReq, piResults, sockets,
                ingested>>

vars == <<sensorVars, queryVars, visionVars>>

\* null, and a value that is not null
Null == <<>>
Some(x) == <<x>>

NoPanel == [exists |-> FALSE, id |-> 0, status |-> "offline",
            currentOutput |-> 0, efficiency |-> 0, maxOutput |-> 0]
NoDevice == [exists |-> FALSE, lastSeenAt |-> 0, latestVoltage |-> 0,
             latestCurrentMa |-> 0, latestPowerMw |-> 0]
NoResponse == [status |-> 0, body |-> <<>>]

AllDeviceIds == MappedDeviceIds \cup {"ESP_99"}

\* seed.ts: status and efficiency of a freshly created panel
SeedStatus(rand) ==
  IF rand > 92 THEN "fault"
  ELSE IF rand > 78 THEN "warning"
  ELSE IF rand > 98 THEN "offline"
  ELSE "healthy"

SeedPanel(gen, rand, effPct) ==
  LET status == SeedStatus(rand)
      efficiency == IF status = "offline" THEN 0 ELSE effPct
  IN [exists |-> TRUE, id |-> gen, status |-> status,
      currentOutput |-> IF status = "offline" THEN 0
                        ELSE ((efficiency * SEED_MAX_OUTPUT) \div 100) * OutputScale,
      efficiency |-> efficiency * EffScale(SEED_MAX_OUTPUT),
      maxOutput |-> SEED_MAX_OUTPUT]

SeedEfficiencies == {80}

DevStr(id) == [t |-> "string", id |-> id]
DevUndef == [t |-> "undefined", id |-> ""]
Falsy(device_id) == device_id.t = "undefined" \/ device_id.id = ""

Body(d, v, c, p) == [device_id |-> d, voltage |-> v, current |-> c, power |-> p]
NoBody == Body(DevUndef, JUndef, JUndef, JUndef)

IdleReq == [pc |-> "idle", body |-> NoBody, device_id |-> "", voltage |-> 0,
            current |-> 0, power |-> 0, panels |-> <<>>, now |-> 0, i |-> 0,
            updatedPanels |-> <<>>, currentGenerationAgg |-> 0,
            response |-> NoResponse]

SensorInit ==
  /\ clock = 0
  /\ solarPanel = [p \in PanelIds |-> SeedPanel(0, 50, 80)]
  /\ seed = [pc |-> "done", next |-> 0, runs |-> 0]
  /\ espDevice = [d \in AllDeviceIds |-> NoDevice]
  /\ espSensorReading = <<>>
  /\ powerGeneration = <<>>
  /\ req = [r \in ReqIds |-> IdleReq]

IdleLive == [pc |-> "idle", now |-> 0, q |-> 0, dbDevices |-> <<>>,
             recentReadings |-> <<>>, counts |-> <<>>, mappedPanels |-> <<>>,
             generationAgg |-> 0, response |-> NoResponse]
IdleListing == [pc |-> "idle", panels |-> <<>>, nowMs |-> 0,
                response |-> NoResponse]

QueryInit ==
  /\ live = IdleLive
  /\ listing = IdleListing

\* --------------------------------------------------------- threshold policy
\* a quotient num / den of the source, den > 0, compared without dividing
Ratio(num, den) == [num |-> num, den |-> den]
RatioLess(q, k) == q.num < k * q.den

\* POST /sensor-update: status written to each panel of the device
sensorUpdateStatus(voltage, power, panelCount) ==
  LET voltagePerPanel == Ratio(voltage, panelCount)
      powerPerPanelW == Ratio(power, panelCount * 1000)
  IN IF RatioLess(voltagePerPanel, MIN_WARNING_PANEL_VOLTAGE) THEN "fault"
     ELSE IF RatioLess(voltagePerPanel, MIN_HEALTHY_PANEL_VOLTAGE)
             \/ powerPerPanelW.num <= 0 THEN "warning"
     ELSE "healthy"

\* currentOutput written to each panel: power / panelCount / 1000 watts
sensorUpdateOutput(power, panelCount) ==
  (power * OutputScale) \div (panelCount * 1000)

\* Math.min(100, maxOutput > 0 ? powerPerPanelW / maxOutput * 100 : 0)
sensorUpdateEfficiency(power, panelCount, maxOutput) ==
  IF maxOutput > 0
  THEN Min(100 * EffScale(maxOutput),
           (power * 100 * EffScale(maxOutput)) \div (panelCount * 1000 * maxOutput))
  ELSE 0

\* ------------------------------------------------------------ seed script
\* prisma.solarPanel.deleteMany()
SeedDeleteMany ==
  /\ seed.pc = "done"
  /\ seed.runs < MaxSeedRuns
  /\ solarPanel' = [p \in PanelIds |-> NoPanel]
  /\ seed' = [pc |-> "creating", next |-> 1, runs |-> seed.runs + 1]
  /\ UNCHANGED <<clock, espDevice, espSensorReading, powerGeneration, req,
                 queryVars, visionVars>>

\* one prisma.solarPanel.create of the creation loop
SeedCreatePanel ==
  /\ seed.pc = "creating"
  /\ \E rand \in SeedRands, eff \in SeedEfficiencies :
       solarPanel' = [solarPanel EXCEPT ![SeedOrder[seed.next]] =
                        SeedPanel(seed.runs, rand, eff)]
  /\ seed' = IF seed.next = Len(SeedOrder)
             THEN [seed EXCEPT !.pc = "done", !.next = 0]
             ELSE [seed EXCEPT !.next = seed.next + 1]
  /\ UNCHANGED <<clock, espDevice, espSensorReading, powerGeneration, req,
                 queryVars, visionVars>>

\* --------------------------------------------------------------- the clock
\* the instants at which something is observed
ClockInstants == {0, 1, 30000, 30001}

Advance(max) ==
  /\ \E t \in ClockInstants : t > clock /\ t <= max /\ clock' = t
  /\ UNCHANGED <<solarPanel, seed, espDevice, espSensorReading,
                 powerGeneration, req, queryVars, visionVars>>

\* ------------------------------------------------- POST /sensor-update

ValidBodies ==
  {Body(DevStr("ESP_01"), JNum(120), JNum(50), JNum(300)),
   Body(DevStr("ESP_01"), JNum(150), JNum(50), JNum(300)),
   Body(DevStr("ESP_01"), JNum(210), JNum(50), JNum(0)),
   Body(DevStr("ESP_01"), JNum(210), JNum(50), JNum(600)),
   Body(DevStr("ESP_02"), JNum(210), JNum(50), JNum(300))}

RaceBodies ==
  {Body(DevStr("ESP_01"), JNum(120), JNum(50), JNum(300)),
   Body(DevStr("ESP_01"), JNum(210), JNum(40), JNum(600)),
   Body(DevStr("ESP_02"), JNum(210), JNum(50), JNum(300))}

OtherBodies ==
  {Body(DevStr("ESP_99"), JNum(210), JNum(50), JNum(300)),
   Body(DevStr("ESP_01"), JStr(<<"a", "b", "c">>), JNum(10), JNum(10)),
   Body(DevStr("ESP_01"), JNum(210), JUndef, JNum(300)),
   Body(DevStr("ESP_01"), JNum(210), JNum(50), JInf),
   Body(DevStr("ESP_01"), JNum(210), JNum(50), JStr(<<" ">>)),
   Body(DevUndef, JNum(210), JNum(50), JNum(300)),
   Body(DevStr(""), JNum(210), JNum(50), JNum(300)),
   Body(DevStr("ESP_01"), JStr(<<" ", "1", "3", "5">>), JStr(<<"5", "0">>),
        JStr(<<"3", "0", "0", " ">>))}

SensorBodies == ValidBodies \cup OtherBodies
RaceSensorBodies == RaceBodies \cup OtherBodies

\* res.status(status).json(body): the handler ends
Respond(r, b, status, body) ==
  req' = [req EXCEPT ![r] =
            IF status = 200
            THEN [req[r] EXCEPT !.pc = "done", !.panels = <<>>, !.i = 0,
                                !.updatedPanels = <<>>,
                                !.currentGenerationAgg = 0,
                                !.response = [status |-> status, body |-> body]]
            ELSE [IdleReq EXCEPT !.pc = "done", !.body = b,
                                 !.response = [status |-> status, body |-> body]]]

mappedPanelIds_Fallback(device_id) ==
  IF device_id \in DOMAIN deviceToPanelMap THEN deviceToPanelMap[device_id]
  ELSE deviceToPanelMap["ESP_01"]

\* deviceToPanelMap[device_id], the empty list standing for undefined
mappedPanelIds(device_id) ==
  IF device_id \in DOMAIN deviceToPanelMap THEN deviceToPanelMap[device_id]
  ELSE <<>>

\* the synchronous head of the handler: parse, validate, look up the mapping
Receive(r, body) ==
  LET device_id == body.device_id
      voltage == parseNumber(body.voltage)
      current == parseNumber(body.current)
      power == parseNumber(body.power)
  IN /\ req[r].pc = "idle"
     /\ \A q \in ReqIds : q < r => req[q].pc # "idle"
     /\ IF Falsy(device_id) \/ ~voltage.fin \/ ~current.fin \/ ~power.fin
        THEN Respond(r, body, 400,
               [error |-> "Missing required fields: device_id, voltage, current, power"])
        ELSE IF Len(mappedPanelIds(device_id.id)) = 0
        THEN Respond(r, body, 404, [error |-> "Device not found in mapping"])
        ELSE req' = [req EXCEPT ![r] =
               [IdleReq EXCEPT !.pc = "findPanels", !.body = body,
                  !.device_id = device_id.id,
                  !.voltage = voltage.n, !.current = current.n, !.power = power.n]]
     /\ UNCHANGED <<clock, solarPanel, seed, espDevice, espSensorReading,
                    powerGeneration>>

\* prisma.solarPanel.findMany({ where: { panelId: { in: panelIds } } })
FoundPanels(panelIds) ==
  LET present == SelectSeq(panelIds, LAMBDA p : solarPanel[p].exists)
  IN [i \in 1..Len(present) |->
        [panelId |-> present[i], id |-> solarPanel[present[i]].id,
         maxOutput |-> solarPanel[present[i]].maxOutput]]

FindPanels(r) ==
  LET panels == FoundPanels(mappedPanelIds(req[r].device_id))
  IN /\ req[r].pc = "findPanels"
     /\ IF Len(panels) = 0
        THEN Respond(r, req[r].body, 404, [error |-> "Panels not found"])
        ELSE req' = [req EXCEPT ![r].pc = "upsert", ![r].panels = panels,
                                ![r].now = clock]
     /\ UNCHANGED <<clock, solarPanel, seed, espDevice, espSensorReading,
                    powerGeneration>>

\* the row left by upsert: update and create write the same four fields
upsertDeviceRow_KeepsLastSeen(existing, now, voltage, current, power) ==
  [exists |-> TRUE,
   lastSeenAt |-> IF existing.exists THEN existing.lastSeenAt ELSE now,
   latestVoltage |-> voltage, latestCurrentMa |-> current, latestPowerMw |-> power]

upsertDeviceRow(existing, now, voltage, current, power) ==
  [exists |-> TRUE, lastSeenAt |-> now, latestVoltage |-> voltage,
   latestCurrentMa |-> current, latestPowerMw |-> power]

\* prisma.espDevice.upsert keyed by deviceId
UpsertDevice(r) ==
  /\ req[r].pc = "upsert"
  /\ espDevice' = [espDevice EXCEPT ![req[r].device_id] =
       upsertDeviceRow(@, req[r].now, req[r].voltage, req[r].current, req[r].power)]
  /\ req' = [req EXCEPT ![r].pc = "createReading"]
  /\ UNCHANGED <<clock, solarPanel, seed, espSensorReading, powerGeneration>>

\* prisma.espSensorReading.create
CreateReading(r) ==
  /\ req[r].pc = "createReading"
  /\ espSensorReading' = Append(espSensorReading,
       [deviceId |-> req[r].device_id, voltage |-> req[r].voltage,
        currentMa |-> req[r].current, powerMw |-> req[r].power,
        recordedAt |-> req[r].now])
  /\ req' = [req EXCEPT ![r].pc = "updatePanels", ![r].i = 1]
  /\ UNCHANGED <<clock, solarPanel, seed, espDevice, powerGeneration>>

\* one prisma.solarPanel.update({ where: { id: panel.id } }) of the loop;
\* the update throws when the row read by findMany no longer exists
UpdatePanel(r) ==
  LET panel == req[r].panels[req[r].i]
      panelCount == Len(req[r].panels)
      row == solarPanel[panel.panelId]
      updatedPanel ==
        [row EXCEPT
           !.currentOutput = sensorUpdateOutput(req[r].power, panelCount),
           !.efficiency = sensorUpdateEfficiency(req[r].power, panelCount,
                                                  panel.maxOutput),
           !.status = sensorUpdateStatus(req[r].voltage, req[r].power, panelCount)]
  IN /\ req[r].pc = "updatePanels"
     /\ IF row.exists /\ row.id = panel.id
        THEN /\ solarPanel' = [solarPanel EXCEPT ![panel.panelId] = updatedPanel]
             /\ req' = [req EXCEPT
                  ![r].pc = IF req[r].i = panelCount THEN "aggregate"
                            ELSE "updatePanels",
                  ![r].i = req[r].i + 1,
                  ![r].updatedPanels = Append(@,
                     [panelId |-> panel.panelId,
                      currentOutput |-> updatedPanel.currentOutput,
                      efficiency |-> updatedPanel.efficiency,
                      status |-> updatedPanel.status])]
        ELSE /\ Respond(r, req[r].body, 500,
                        [error |-> "Failed to update sensor data",
                         details |-> "Record to update not found"])
             /\ UNCHANGED solarPanel
     /\ UNCHANGED <<clock, seed, espDevice, espSensorReading, powerGeneration>>

RECURSIVE SumOutput(_)
SumOutput(ps) ==
  IF ps = {} THEN 0
  ELSE LET p == CHOOSE x \in ps : TRUE
       IN (IF solarPanel[p].exists THEN solarPanel[p].currentOutput ELSE 0)
          + SumOutput(ps \ {p})

\* prisma.solarPanel.aggregate({ _sum: { currentOutput: true } })
AggregateOutput(r) ==
  /\ req[r].pc = "aggregate"
  /\ req' = [req EXCEPT ![r].pc = "upsertGeneration", ![r].i = 0,
                          ![r].currentGenerationAgg = SumOutput(PanelIds)]
  /\ UNCHANGED <<clock, solarPanel, seed, espDevice, espSensorReading,
                 powerGeneration>>

UpsertGeneration_CreateOnly(r) ==
  /\ req[r].pc = "upsertGeneration"
  /\ powerGeneration' =
       [t \in DOMAIN powerGeneration \cup {req[r].now} |->
          IF t \in DOMAIN powerGeneration THEN powerGeneration[t]
          ELSE req[r].currentGenerationAgg]
  /\ Respond(r, req[r].body, 200,
             [success |-> TRUE, device |-> req[r].device_id,
              panelCount |-> Len(req[r].panels), panels |-> req[r].updatedPanels])
  /\ UNCHANGED <<clock, solarPanel, seed, espDevice, espSensorReading>>

\* prisma.powerGeneration.upsert({ where: { timestamp: now } }) and res.json
UpsertGeneration(r) ==
  /\ req[r].pc = "upsertGeneration"
  /\ powerGeneration' =
       [t \in DOMAIN powerGeneration \cup {req[r].now} |->
          IF t = req[r].now THEN req[r].currentGenerationAgg
          ELSE powerGeneration[t]]
  /\ Respond(r, req[r].body, 200,
             [success |-> TRUE, device |-> req[r].device_id,
              panelCount |-> Len(req[r].panels), panels |-> req[r].updatedPanels])
  /\ UNCHANGED <<clock, solarPanel, seed, espDevice, espSensorReading>>

AwaitingDb == {"findPanels", "upsert", "createReading", "updatePanels",
               "aggregate", "upsertGeneration"}

\* a rejected database call: the catch block of the handler
DbError(r) ==
  /\ req[r].pc \in AwaitingDb
  /\ Respond(r, req[r].body, 500, [error |-> "Failed to update sensor data",
                      details |-> "database error"])
  /\ UNCHANGED <<clock, solarPanel, seed, espDevice, espSensorReading,
                 powerGeneration>>

\* ------------------------------------------------------ device liveness
\* device?.lastSeenAt of a row returned (or not) by espDevice.findMany
lastSeenAtOf(device) == IF device.exists THEN Some(device.lastSeenAt) ELSE Null

getDeviceOnline_Inverted(lastSeenAt, nowMs) ==
  IF lastSeenAt = Null THEN FALSE
  ELSE nowMs - lastSeenAt[1] >= DEVICE_ONLINE_THRESHOLD_MS

getDeviceOnline(lastSeenAt, nowMs) ==
  IF lastSeenAt = Null THEN FALSE
  ELSE nowMs - lastSeenAt[1] <= DEVICE_ONLINE_THRESHOLD_MS

\* Object.keys(deviceToPanelMap)
deviceIds == <<"ESP_01", "ESP_02", "ESP_03">>

\* deviceToPanelMap[deviceId]?.length || 1
panelCountOf(deviceId) ==
  IF Len(mappedPanelIds(deviceId)) = 0 THEN 1 ELSE Len(mappedPanelIds(deviceId))

\* ------------------------------------------------------ GET /live-status
\* status of one device of the snapshot
liveDeviceStatus(deviceId, device, now) ==
  LET online == getDeviceOnline(lastSeenAtOf(device), now)
      perPanelVoltage ==
        IF device.exists THEN Some(Ratio(device.latestVoltage, panelCountOf(deviceId)))
        ELSE Null
      latestPowerMw == IF device.exists THEN device.latestPowerMw ELSE 0
  IN IF ~online THEN "offline"
     ELSE IF perPanelVoltage # Null
             /\ RatioLess(perPanelVoltage[1], MIN_WARNING_PANEL_VOLTAGE) THEN "fault"
     ELSE IF (perPanelVoltage # Null
              /\ RatioLess(perPanelVoltage[1], MIN_HEALTHY_PANEL_VOLTAGE))
             \/ latestPowerMw <= 0 THEN "warning"
     ELSE "healthy"

liveDevice_LastKnown(deviceId, device, now) ==
  LET online == getDeviceOnline(lastSeenAtOf(device), now)
  IN [deviceId |-> deviceId,
      online |-> online,
      status |-> liveDeviceStatus(deviceId, device, now),
      lastSeenAt |-> lastSeenAtOf(device),
      staleSeconds |-> IF device.exists
                       THEN Some(Max(0, (now - device.lastSeenAt) \div 1000))
                       ELSE Null,
      voltage |-> IF device.exists THEN device.latestVoltage ELSE 0,
      currentMa |-> IF device.exists THEN device.latestCurrentMa ELSE 0,
      powerMw |-> IF device.exists THEN device.latestPowerMw ELSE 0]

\* one element of the devices array of the snapshot
liveDevice(deviceId, device, now) ==
  LET online == getDeviceOnline(lastSeenAtOf(device), now)
  IN [deviceId |-> deviceId,
      online |-> online,
      status |-> liveDeviceStatus(deviceId, device, now),
      lastSeenAt |-> lastSeenAtOf(device),
      staleSeconds |-> IF device.exists
                       THEN Some(Max(0, (now - device.lastSeenAt) \div 1000))
                       ELSE Null,
      voltage |-> IF online /\ device.exists THEN device.latestVoltage ELSE 0,
      currentMa |-> IF online /\ device.exists THEN device.latestCurrentMa ELSE 0,
      powerMw |-> IF online /\ device.exists THEN device.latestPowerMw ELSE 0]

RECURSIVE SumSeq(_)
SumSeq(s) == IF s = <<>> THEN 0 ELSE Head(s) + SumSeq(Tail(s))

RECURSIVE InsertByRecordedAt(_, _)
InsertByRecordedAt(sorted, reading) ==
  IF sorted = <<>> THEN <<reading>>
  ELSE IF reading.recordedAt < Head(sorted).recordedAt THEN <<reading>> \o sorted
  ELSE <<Head(sorted)>> \o InsertByRecordedAt(Tail(sorted), reading)

RECURSIVE SortByRecordedAt(_)
SortByRecordedAt(readings) ==
  IF readings = <<>> THEN <<>>
  ELSE InsertByRecordedAt(
         SortByRecordedAt(SubSeq(readings, 1, Len(readings) - 1)),
         readings[Len(readings)])

\* ------------------------------------------- powerHistory30s of live-status
bucketMsOf_Ceiling(recordedAt) ==
  ((recordedAt + DEVICE_ONLINE_THRESHOLD_MS - 1) \div DEVICE_ONLINE_THRESHOLD_MS)
    * DEVICE_ONLINE_THRESHOLD_MS

\* Math.floor(recordedAt / DEVICE_ONLINE_THRESHOLD_MS) * DEVICE_ONLINE_THRESHOLD_MS
bucketMsOf(recordedAt) ==
  (recordedAt \div DEVICE_ONLINE_THRESHOLD_MS) * DEVICE_ONLINE_THRESHOLD_MS

bucketSet_KeepsFirst(bucket, reading) ==
  IF reading.deviceId \notin DOMAIN bucket
  THEN [d \in DOMAIN bucket \cup {reading.deviceId} |->
          IF d = reading.deviceId THEN reading ELSE bucket[d]]
  ELSE bucket

\* if (!existing || reading.recordedAt > existing.recordedAt)
\*   bucket.set(deviceId, reading)
bucketSet(bucket, reading) ==
  IF \/ reading.deviceId \notin DOMAIN bucket
     \/ reading.recordedAt > bucket[reading.deviceId].recordedAt
  THEN [d \in DOMAIN bucket \cup {reading.deviceId} |->
          IF d = reading.deviceId THEN reading ELSE bucket[d]]
  ELSE bucket

\* the body of the loop over recentReadings: the map of the reading's bucket
\* is created when missing, then offered the reading
bucketMapPut(bucketMap, reading) ==
  LET bucketMs == bucketMsOf(reading.recordedAt)
      bucket == IF bucketMs \in DOMAIN bucketMap THEN bucketMap[bucketMs]
                ELSE <<>>
  IN [b \in DOMAIN bucketMap \cup {bucketMs} |->
        IF b = bucketMs THEN bucketSet(bucket, reading) ELSE bucketMap[b]]

\* for (const reading of recentReadings) { ... }
RECURSIVE bucketMapOf(_)
bucketMapOf(readings) ==
  IF readings = <<>> THEN <<>>
  ELSE bucketMapPut(bucketMapOf(SubSeq(readings, 1, Len(readings) - 1)),
                    readings[Len(readings)])

sortBuckets_Descending(bucketStarts) ==
  LET RECURSIVE desc(_)
      desc(S) == IF S = {} THEN <<>>
                 ELSE LET m == CHOOSE x \in S : \A y \in S : x >= y
                      IN <<m>> \o desc(S \ {m})
  IN desc(bucketStarts)

\* Array.from(bucketMap.entries()).sort((a, b) => a[0] - b[0])
sortBuckets(bucketStarts) ==
  LET RECURSIVE asc(_)
      asc(S) == IF S = {} THEN <<>>
                ELSE LET m == CHOOSE x \in S : \A y \in S : x <= y
                     IN <<m>> \o asc(S \ {m})
  IN asc(bucketStarts)

\* Array.from(bucketReadings.values()).reduce((sum, r) => sum + r.powerMw, 0)
totalBucketPowerMw(bucketReadings) ==
  LET RECURSIVE sum(_)
      sum(D) == IF D = {} THEN 0
                ELSE LET d == CHOOSE x \in D : TRUE
                     IN bucketReadings[d].powerMw + sum(D \ {d})
  IN sum(DOMAIN bucketReadings)

\* the powerHistory30s array of the snapshot; timestamp is the bucket start
\* in ms and the total is kept in mW (totalPowerKw is the total / 1_000_000)
powerHistory30s(recentReadings) ==
  LET bucketMap == bucketMapOf(recentReadings)
      entries == sortBuckets(DOMAIN bucketMap)
  IN [i \in 1..Len(entries) |->
        [timestamp |-> entries[i],
         totalPowerMw |-> totalBucketPowerMw(bucketMap[entries[i]]),
         deviceCount |-> Cardinality(DOMAIN bucketMap[entries[i]])]]

HISTORY_MS == 1800000

CountPanels(statuses) ==
  Cardinality({p \in PanelIds : solarPanel[p].exists /\ solarPanel[p].status \in statuses})

AllStatuses == {"healthy", "warning", "fault", "offline"}

\* const now = Date.now(); the nine queries of Promise.all are sent
LiveStart ==
  /\ live.pc = "idle"
  /\ live' = [IdleLive EXCEPT !.pc = "queries", !.now = clock, !.q = 1]
  /\ UNCHANGED <<sensorVars, listing, clientVars, visionVars>>

\* the next query of Promise.all is answered by the database
LiveQuery ==
  /\ live.pc = "queries"
  /\ live' =
       [live EXCEPT
          !.q = live.q + 1,
          !.pc = IF live.q = 9 THEN "respond" ELSE "queries",
          !.dbDevices =
             IF live.q = 1 THEN [d \in MappedDeviceIds |-> espDevice[d]] ELSE @,
          !.recentReadings =
             IF live.q = 2
             THEN SortByRecordedAt(SelectSeq(espSensorReading,
                    LAMBDA x : /\ x.recordedAt >= live.now - HISTORY_MS
                               /\ x.deviceId \in MappedDeviceIds))
             ELSE @,
          !.counts =
             IF live.q = 3 THEN Append(@, CountPanels(AllStatuses))
             ELSE IF live.q = 4 THEN Append(@, CountPanels({"healthy"}))
             ELSE IF live.q = 5 THEN Append(@, CountPanels({"warning"}))
             ELSE IF live.q = 6 THEN Append(@, CountPanels({"fault"}))
             ELSE IF live.q = 7 THEN Append(@, CountPanels({"offline"}))
             ELSE @,
          !.mappedPanels =
             IF live.q = 8
             THEN [p \in {x \in PanelIds : solarPanel[x].exists
                                            /\ panelToDeviceMap(x) # ""} |->
                     solarPanel[p].maxOutput]
             ELSE @,
          !.generationAgg = IF live.q = 9 THEN SumOutput(PanelIds) ELSE @]
  /\ UNCHANGED <<sensorVars, listing, clientVars, visionVars>>

\* the snapshot computed from the answers, and res.json
LiveSnapshot ==
  LET devices == [i \in 1..Len(deviceIds) |->
                    liveDevice(deviceIds[i], live.dbDevices[deviceIds[i]], live.now)]
      onlinePowerMw ==
        SumSeq([i \in 1..Len(devices) |->
                  IF devices[i].online THEN devices[i].powerMw ELSE 0])
  IN /\ live.pc = "respond"
     /\ live' = [IdleLive EXCEPT
          !.pc = "done", !.now = live.now,
          !.response =
            [status |-> 200,
             body |-> [totalPanels |-> live.counts[1],
                       healthyPanels |-> live.counts[2],
                       warningPanels |-> live.counts[3],
                       faultPanels |-> live.counts[4],
                       offlinePanels |-> live.counts[5],
                       currentGenerationMw |-> onlinePowerMw,
                       panelGeneration |-> live.generationAgg,
                       totalPowerMw |-> SumSeq([i \in 1..Len(devices) |->
                                                  devices[i].powerMw]),
                       devices |-> devices,
                       powerHistory30s |-> powerHistory30s(live.recentReadings)]]]

LiveRespond_PersistsOffline ==
  /\ LiveSnapshot
  /\ solarPanel' =
       [p \in DOMAIN solarPanel |->
          IF /\ solarPanel[p].exists
             /\ panelToDeviceMap(p) # ""
             /\ ~getDeviceOnline(lastSeenAtOf(live.dbDevices[panelToDeviceMap(p)]),
                                 live.now)
          THEN [solarPanel[p] EXCEPT !.status = "offline", !.currentOutput = 0]
          ELSE solarPanel[p]]
  /\ UNCHANGED <<clock, seed, espDevice, espSensorReading, powerGeneration,
                 req, listing, clientVars, visionVars>>

\* the handler answers and writes nothing
LiveRespond ==
  /\ LiveSnapshot
  /\ UNCHANGED <<sensorVars, listing, clientVars, visionVars>>

\* one of the queries is rejected: the catch block
LiveDbError ==
  /\ live.pc = "queries"
  /\ live' = [IdleLive EXCEPT
       !.pc = "done",
       !.response = [status |-> 500,
                     body |-> [error |-> "Failed to fetch live status"]]]
  /\ UNCHANGED <<sensorVars, listing, clientVars, visionVars>>

LiveStep == LiveStart \/ LiveQuery \/ LiveRespond \/ LiveDbError

\* ------------------------------------------------ GET / (panel listing)
\* the element of the listing for one Panel row
withDeviceSensorData(panel, devices, nowMs) ==
  LET deviceId == panelToDeviceMap(panel.panelId)
      device == IF deviceId # "" THEN devices[deviceId] ELSE NoDevice
      isOnline == getDeviceOnline(lastSeenAtOf(device), nowMs)
      effectiveVoltage == IF isOnline THEN device.latestVoltage ELSE 0
      effectiveCurrent == IF isOnline THEN device.latestCurrentMa ELSE 0
      effectivePower == IF isOnline THEN device.latestPowerMw ELSE 0
      perPanelVoltage ==
        IF isOnline THEN Some(Ratio(effectiveVoltage, panelCountOf(deviceId)))
        ELSE Null
      derivedStatus ==
        IF ~isOnline THEN "offline"
        ELSE IF panel.status = "healthy" /\ perPanelVoltage # Null
                /\ RatioLess(perPanelVoltage[1], MIN_HEALTHY_PANEL_VOLTAGE)
        THEN "warning"
        ELSE panel.status
  IN [panelId |-> panel.panelId,
      storedStatus |-> panel.status,
      status |-> derivedStatus,
      sensorDeviceId |-> IF deviceId # "" THEN Some(deviceId) ELSE Null,
      sensorLastUpdated |-> lastSeenAtOf(device),
      sensorVoltage |-> IF deviceId # "" THEN Some(effectiveVoltage) ELSE Null,
      sensorCurrentMa |-> IF deviceId # "" THEN Some(effectiveCurrent) ELSE Null,
      sensorPowerMw |-> IF deviceId # "" THEN Some(effectivePower) ELSE Null]

\* prisma.solarPanel.findMany ordered by zone, row, column; then Date.now()
ListFind ==
  LET present == SelectSeq(SeedOrder, LAMBDA p : solarPanel[p].exists)
  IN /\ listing.pc = "idle"
     /\ listing' = [IdleListing EXCEPT
          !.pc = "devices",
          !.panels = [i \in 1..Len(present) |->
                        [panelId |-> present[i],
                         status |-> solarPanel[present[i]].status]],
          !.nowMs = clock]
     /\ UNCHANGED <<sensorVars, live, clientVars, visionVars>>

\* prisma.espDevice.findMany for the devices of the panels, and res.json
ListDevices ==
  /\ listing.pc = "devices"
  /\ listing' = [IdleListing EXCEPT
       !.pc = "done", !.nowMs = listing.nowMs,
       !.response =
         [status |-> 200,
          body |-> [i \in 1..Len(listing.panels) |->
                      withDeviceSensorData(listing.panels[i], espDevice,
                                           listing.nowMs)]]]
  /\ UNCHANGED <<sensorVars, live, clientVars, visionVars>>

ListDbError ==
  /\ listing.pc \in {"idle", "devices"}
  /\ listing' = [IdleListing EXCEPT
       !.pc = "done",
       !.response = [status |-> 500,
                     body |-> [error |-> "Failed to fetch panels"]]]
  /\ UNCHANGED <<sensorVars, live, clientVars, visionVars>>

ListStep == ListFind \/ ListDevices \/ ListDbError

\* ------------------------------------------------- vision ingestion
\* A string of the payload is a sequence of tokens: "data:image/" is the
\* prefix String.startsWith looks for, "/api/pi-images/" the prefix of a
\* reference into the image store, the other tokens stand for base64 text.
\* A value that may be missing is Null or Some(string).

\* data of a pi_analysis_result event: capture_id (none, or a number),
\* whether report is present, and the number of entries of panel_crops;
\* no image, no health score and no thermal block unless set with EXCEPT
PiData(capture_id, report, crops) ==
  [capture_id |-> capture_id, report |-> report, panel_crops |-> crops,
   health_score |-> Null,             \* report.health_score, in tenths
   frame_b64 |-> Null, thermal_b64 |-> Null,
   image_b64 |-> [i \in 1..crops |-> Null],          \* panel_crops[i].image_b64
   thermal_image_b64 |-> [i \in 1..crops |-> Null],
   thermal |-> Null, thermal_stats |-> Null]

\* a ThermalBlock: severity and risk_score (in tenths), each possibly missing
ThermalBlock(severity, risk_score) ==
  [severity |-> severity, risk_score |-> risk_score]

NoCaptureId_Never(data) == FALSE

\* !data?.capture_id: undefined and 0 are falsy
NoCaptureId(data) == data.capture_id = Null \/ data.capture_id = Some(0)

\* a value that is neither null/undefined nor the empty string
Truthy(value) == value # Null /\ value[1] # <<>>

\* a || b
OrElse(a, b) == IF Truthy(a) THEN a ELSE b

\* toDataUrl(rawData)
toDataUrl(rawData) ==
  IF ~Truthy(rawData) THEN Null
  ELSE IF rawData[1][1] = "data:image/" THEN rawData
  ELSE Some(<<"data:image/", "jpeg;base64,">> \o rawData[1])

\* the web path left by fs.writeFileSync in a try block: null when the image
\* is missing or the write throws
savedWebPath(rawData, written, directory, fileName) ==
  IF Truthy(rawData) /\ written THEN Some(<<"/api/pi-images/", directory, fileName>>)
  ELSE Null

\* the outcomes of the writes of one event: a write that is not attempted
\* has no outcome of its own
FsOutcomes(data) ==
  {fs \in [frame : BOOLEAN, thermal : BOOLEAN,
           crop : [1..data.panel_crops -> BOOLEAN],
           cropThermal : [1..data.panel_crops -> BOOLEAN]] :
     /\ ~Truthy(data.frame_b64) => fs.frame
     /\ ~Truthy(data.thermal_b64) => fs.thermal
     /\ \A i \in 1..data.panel_crops :
          /\ ~Truthy(data.image_b64[i]) => fs.crop[i]
          /\ ~Truthy(data.thermal_image_b64[i]) => fs.cropThermal[i]}

\* Number(data.report.health_score ?? 0), in tenths
healthScoreOf(data) ==
  IF data.health_score = Null THEN 0 ELSE data.health_score[1]

\* data.thermal ?? data.thermal_stats ?? {}
thermalBlockOf(data) ==
  IF data.thermal # Null THEN data.thermal[1]
  ELSE IF data.thermal_stats # Null THEN data.thermal_stats[1]
  ELSE ThermalBlock(Null, Null)

getSeverityFromHealthScore_Inclusive(healthScore) ==
  IF healthScore <= 300 THEN "CRITICAL"
  ELSE IF healthScore <= 500 THEN "HIGH"
  ELSE IF healthScore <= 750 THEN "MODERATE"
  ELSE "LOW"

\* getSeverityFromHealthScore, the score in tenths
getSeverityFromHealthScore(healthScore) ==
  IF healthScore < 300 THEN "CRITICAL"
  ELSE IF healthScore < 500 THEN "HIGH"
  ELSE IF healthScore < 750 THEN "MODERATE"
  ELSE "LOW"

\* thermalBlock.severity ?? getSeverityFromHealthScore(healthScore)
severityOf(data) ==
  IF thermalBlockOf(data).severity # Null THEN thermalBlockOf(data).severity[1]
  ELSE getSeverityFromHealthScore(healthScoreOf(data))

\* Math.round of a number given in tenths: the nearest integer, halves up
MathRound(tenths) == ((tenths + 5) \div 10) * 10

riskScoreOf_Unclamped(data) ==
  IF thermalBlockOf(data).risk_score # Null THEN thermalBlockOf(data).risk_score[1]
  ELSE MathRound(1000 - healthScoreOf(data))

\* thermalBlock.risk_score ?? Math.max(0, Math.min(100, Math.round(100 - healthScore)))
riskScoreOf(data) ==
  IF thermalBlockOf(data).risk_score # Null THEN thermalBlockOf(data).risk_score[1]
  ELSE Max(0, Min(1000, MathRound(1000 - healthScoreOf(data))))

\* the locals of the handler when the images have been written
PiLocals(data, fs) ==
  LET mainImageDataUrl == toDataUrl(data.frame_b64)
      thermalImageDataUrl == toDataUrl(data.thermal_b64)
      mainImageWebPath == savedWebPath(data.frame_b64, fs.frame, "captures/", "capture")
      thermalImageWebPath ==
        savedWebPath(data.thermal_b64, fs.thermal, "captures/", "thermal")
  IN [mainImage |-> OrElse(mainImageDataUrl, mainImageWebPath),
      thermalImage |-> OrElse(thermalImageDataUrl, thermalImageWebPath),
      panelCropsForClients |->
        [i \in 1..data.panel_crops |->
           [panel_number |-> i,
            web_path |->
              OrElse(toDataUrl(data.image_b64[i]),
                     savedWebPath(data.image_b64[i], fs.crop[i],
                                  "panel_crops/", "panel")),
            thermal_web_path |->
              OrElse(toDataUrl(data.thermal_image_b64[i]),
                     savedWebPath(data.thermal_image_b64[i], fs.cropThermal[i],
                                  "panel_crops/", "thermal_panel"))]],
      severity |-> severityOf(data),
      riskScore |-> riskScoreOf(data),
      healthScore |-> healthScoreOf(data)]

NoLocals == PiLocals(PiData(Null, FALSE, 0),
                     [frame |-> TRUE, thermal |-> TRUE, crop |-> <<>>,
                      cropThermal |-> <<>>])

IdlePi == [pc |-> "idle", data |-> PiData(Null, FALSE, 0), fs |-> <<>>,
           locals |-> NoLocals, savedScan |-> 0, response |-> Null]
IdleScanReq == [pc |-> "idle", panels |-> 0, scan |-> 0, pending |-> {},
                response |-> NoResponse]
NoSocket == [connected |-> FALSE, connectedAt |-> 0, received |-> <<>>,
             notified |-> <<>>]

ObserverIds == 1..MaxObservers

VisionInit ==
  /\ solarScan = <<>>
  /\ panelDetection = {}
  /\ pi = IdlePi
  /\ scanReq = IdleScanReq
  /\ piResults = <<>>
  /\ sockets = [o \in ObserverIds |-> NoSocket]
  /\ ingested = <<>>

\* the keys of the PanelDetection rows of the scan `id` for an input of `n` panels
DetectionRows(id, n) == {[scanId |-> id, panelNumber |-> i] : i \in 1..n}

\* validation of the event; the images are written synchronously and the
\* nested prisma.solarScan.create is sent
PiReceive(data) ==
  /\ pi.pc = "idle"
  /\ IF NoCaptureId(data) \/ ~data.report
     THEN pi' = [IdlePi EXCEPT !.pc = "done", !.data = data,
                   !.response = Some([success |-> FALSE,
                      error |-> "Missing required fields (capture_id/report)"])]
     ELSE \E fs \in FsOutcomes(data) :
            pi' = [IdlePi EXCEPT !.pc = "create", !.data = data, !.fs = fs,
                     !.locals = PiLocals(data, fs)]
  /\ UNCHANGED <<sensorVars, queryVars, solarScan, panelDetection, scanReq,
                 piResults, sockets, ingested>>

\* the database commits the Scan row with its nested panelDetections.create
PiCreateScan ==
  LET id == Len(solarScan) + 1
      crops == pi.locals.panelCropsForClients
  IN /\ pi.pc = "create"
     /\ solarScan' = Append(solarScan,
          [id |-> id, source |-> "pi_analysis_result",
           totalPanels |-> Len(crops),
           rgbImageUrl |-> pi.locals.mainImage,
           thermalImageUrl |-> pi.locals.thermalImage,
           severity |-> Some(pi.locals.severity),
           riskScore |-> Some(pi.locals.riskScore),
           aiHealthScore |-> Some(MathRound(pi.locals.healthScore))])
     /\ panelDetection' = panelDetection \cup
          {[scanId |-> id, panelNumber |-> i,
            cropImageUrl |-> crops[i].web_path,
            thermalCropImageUrl |->
              OrElse(crops[i].thermal_web_path, pi.locals.thermalImage)] :
             i \in 1..Len(crops)}
     /\ pi' = [pi EXCEPT !.pc = "saved", !.savedScan = id]
     /\ UNCHANGED <<sensorVars, queryVars, scanReq, piResults, sockets, ingested>>

\* the database rejects the nested create: the catch block
PiDbError ==
  /\ pi.pc = "create"
  /\ pi' = [pi EXCEPT !.pc = "done",
              !.response = Some([success |-> FALSE, error |-> "Unknown error"])]
  /\ UNCHANGED <<sensorVars, queryVars, solarScan, panelDetection, scanReq,
                 piResults, sockets, ingested>>

\* piResults.unshift(result); if (length > MAX_PI_RESULTS) length = MAX_PI_RESULTS
piResultsUnshift_KeepsOldest(results, result) ==
  IF Len(results) >= MAX_PI_RESULTS THEN results ELSE <<result>> \o results

piResultsUnshift(results, result) ==
  LET unshifted == <<result>> \o results
  IN IF Len(unshifted) > MAX_PI_RESULTS
     THEN SubSeq(unshifted, 1, MAX_PI_RESULTS)
     ELSE unshifted

\* io.emit('new_result', result): every connected socket is sent the result
ioEmit(socks, result) ==
  [o \in DOMAIN socks |->
     IF socks[o].connected
     THEN [socks[o] EXCEPT !.received = Append(@, result.id)]
     ELSE socks[o]]

\* io.emit('new-solar-scan', { scanId, source })
ioEmitNewSolarScan(socks, scanId) ==
  [o \in DOMAIN socks |->
     IF socks[o].connected
     THEN [socks[o] EXCEPT !.notified = Append(@, scanId)]
     ELSE socks[o]]

piAnalysisReceived_Failure(savedScan) ==
  [success |-> FALSE, error |-> "Unknown error"]

\* the response after the broadcast: { success: true, scanId: savedScan.id }
piAnalysisReceived(savedScan) == [success |-> TRUE, scanId |-> savedScan]

\* after the create: the result is put on the backlog, broadcast and acknowledged
PiBroadcast ==
  LET resultForClients ==
        [id |-> pi.savedScan, capture_id |-> pi.data.capture_id[1],
         health_score |-> pi.locals.healthScore,
         main_image_web |-> pi.locals.mainImage,
         thermal_image_web |-> pi.locals.thermalImage,
         risk_score |-> pi.locals.riskScore,
         severity |-> pi.locals.severity,
         panel_crops |-> pi.locals.panelCropsForClients]
  IN /\ pi.pc = "saved"
     /\ piResults' = piResultsUnshift(piResults, resultForClients)
     /\ sockets' = ioEmitNewSolarScan(ioEmit(sockets, resultForClients),
                                      pi.savedScan)
     /\ ingested' = Append(ingested, resultForClients.id)
     /\ pi' = [pi EXCEPT !.pc = "done",
                 !.response = Some(piAnalysisReceived(pi.savedScan))]
     /\ UNCHANGED <<sensorVars, queryVars, solarScan, panelDetection, scanReq>>

\* the acknowledgement has been sent: the handler instance is gone
PiClose ==
  /\ pi.pc = "done"
  /\ pi' = IdlePi
  /\ UNCHANGED <<sensorVars, queryVars, solarScan, panelDetection, scanReq,
                 piResults, sockets, ingested>>

\* piResults.forEach((result) => socket.emit('new_result', result))
replayOnConnect_Nothing(results) == <<>>

replayOnConnect(results) == [i \in 1..Len(results) |-> results[i].id]

\* io.on('connection'): a browser connects and is replayed the backlog
Connect(o) ==
  /\ ~sockets[o].connected
  /\ \A q \in ObserverIds : q < o => sockets[q].connected
  /\ sockets' = [sockets EXCEPT ![o] =
       [connected |-> TRUE, connectedAt |-> Len(ingested),
        received |-> replayOnConnect(piResults), notified |-> <<>>]]
  /\ UNCHANGED <<sensorVars, queryVars, solarScan, panelDetection, pi, scanReq,
                 piResults, ingested>>

\* socket.on('disconnect'): the browser is gone and is sent nothing more
Disconnect(o) ==
  /\ sockets[o].connected
  /\ sockets' = [sockets EXCEPT ![o].connected = FALSE]
  /\ UNCHANGED <<sensorVars, queryVars, solarScan, panelDetection, pi, scanReq,
                 piResults, ingested>>

\* ------------------------------------------------ POST /api/solar-scans
\* the body is read and prisma.solarScan.create is sent
ScanReceive(panels) ==
  /\ scanReq.pc = "idle"
  /\ scanReq' = [IdleScanReq EXCEPT !.pc = "createScan", !.panels = panels]
  /\ UNCHANGED <<sensorVars, queryVars, solarScan, panelDetection, pi,
                 piResults, sockets, ingested>>

ScanCreated(id) ==
  [status |-> 201,
   body |-> [success |-> TRUE, scanId |-> id,
             message |-> "Solar scan recorded successfully"]]
ScanFailed == [status |-> 500,
               body |-> [error |-> "Failed to save solar scan data"]]

\* the database commits the Scan row; one panelDetection.create per panel
\* is then sent under Promise.all
ScanCreateScan ==
  LET id == Len(solarScan) + 1
  IN /\ scanReq.pc = "createScan"
     /\ solarScan' = Append(solarScan,
          [id |-> id, source |-> "solar-scans", totalPanels |-> scanReq.panels,
           rgbImageUrl |-> Null, thermalImageUrl |-> Null, severity |-> Null,
           riskScore |-> Null, aiHealthScore |-> Null])
     /\ scanReq' = IF scanReq.panels > 0
                   THEN [scanReq EXCEPT !.pc = "detections", !.scan = id,
                           !.pending = 1..scanReq.panels]
                   ELSE [scanReq EXCEPT !.pc = "done", !.scan = id,
                           !.response = ScanCreated(id)]
     /\ UNCHANGED <<sensorVars, queryVars, panelDetection, pi, piResults,
                    sockets, ingested>>

\* the database rejects the Scan create: the catch block
ScanCreateScanError ==
  /\ scanReq.pc = "createScan"
  /\ scanReq' = [scanReq EXCEPT !.pc = "done", !.response = ScanFailed]
  /\ UNCHANGED <<sensorVars, queryVars, solarScan, panelDetection, pi,
                 piResults, sockets, ingested>>

\* the database commits one of the pending panelDetection.create calls;
\* Promise.all resolves when the last one has, unless it was rejected before
ScanCreateDetection ==
  /\ scanReq.pending # {}
  /\ \E i \in scanReq.pending :
       /\ panelDetection' = panelDetection \cup
            {[scanId |-> scanReq.scan, panelNumber |-> i,
              cropImageUrl |-> Null, thermalCropImageUrl |-> Null]}
       /\ scanReq' =
            IF scanReq.pc = "detections" /\ scanReq.pending = {i}
            THEN [scanReq EXCEPT !.pc = "done", !.pending = {},
                    !.response = ScanCreated(scanReq.scan)]
            ELSE [scanReq EXCEPT !.pending = @ \ {i}]
  /\ UNCHANGED <<sensorVars, queryVars, solarScan, pi, piResults, sockets,
                 ingested>>

\* the database rejects one of the pending panelDetection.create calls:
\* Promise.all rejects at the first rejection and the catch block answers;
\* the other calls stay in flight
ScanDetectionError ==
  /\ scanReq.pending # {}
  /\ \E i \in scanReq.pending :
       scanReq' =
         IF scanReq.pc = "detections"
         THEN [scanReq EXCEPT !.pc = "done", !.pending = @ \ {i},
                 !.response = ScanFailed]
         ELSE [scanReq EXCEPT !.pending = @ \ {i}]
  /\ UNCHANGED <<sensorVars, queryVars, solarScan, panelDetection, pi,
                 piResults, sockets, ingested>>

\* the response has been sent and no create is in flight
ScanClose ==
  /\ scanReq.pc = "done"
  /\ scanReq.pending = {}
  /\ scanReq' = IdleScanReq
  /\ UNCHANGED <<sensorVars, queryVars, solarScan, panelDetection, pi,
                 piResults, sockets, ingested>>

\* ------------------------------------------------- Dashboard page (browser)
\* the five fetches of Promise.all, in the order of the array
DashboardCalls == <<"dashboard", "weather", "daily", "weekly", "monthly">>

\* how one fetchWithTimeout(url, 10000) ends: the response arrives with a
\* 2xx status or with another status, fetch rejects, or the 10 s timer
\* rejects first
FetchOutcomes == {"ok", "notOk", "rejected", "timeout"}

\* fetchWithTimeout(...).catch(e => ({ ok: false })): the ok of the value
\* Promise.all receives
responseOk(outcome) == outcome = "ok"

\* useState: default data, loading, no error; nothing fetched yet
\* (in data, 0 is the default value and 1 the value the server sent)
MountedDashboard ==
  [pc |-> "mounted", loading |-> TRUE, error |-> Null, isRetrying |-> FALSE,
   data |-> [i \in 1..Len(DashboardCalls) |-> 0],
   calls |-> [i \in 1..Len(DashboardCalls) |-> "none"],
   overallTimeout |-> FALSE]


\* fetchData() up to the await: called by the mount effect, and by the
\* Retry button, which is rendered only while error is set
DashFetchData ==
  /\ \/ dashboard.pc = "mounted"
     \/ dashboard.pc = "shown" /\ dashboard.error # Null
  /\ dashboard' =
       [dashboard EXCEPT
          !.pc = "fetching", !.loading = TRUE, !.error = Null,
          !.isRetrying = (dashboard.pc = "shown"),
          !.overallTimeout = TRUE,
          !.calls = [i \in 1..Len(DashboardCalls) |-> "pending"]]
  /\ UNCHANGED <<sensorVars, live, listing, receiver, visionVars>>

\* one of the five fetches ends
DashSettle(i, outcome) ==
  /\ dashboard.pc = "fetching"
  /\ dashboard.calls[i] = "pending"
  /\ dashboard' = [dashboard EXCEPT !.calls[i] = outcome]
  /\ UNCHANGED <<sensorVars, live, listing, receiver, visionVars>>

\* Promise.all has resolved: the 15 s timer is cleared, each body that
\* arrived is parsed, setData, setError(null), and the finally block
DashShow(parsed) ==
  /\ dashboard.pc = "fetching"
  /\ \A i \in 1..Len(DashboardCalls) : dashboard.calls[i] \in FetchOutcomes
  /\ dashboard' =
       [dashboard EXCEPT
          !.pc = "shown", !.overallTimeout = FALSE,
          !.data = [i \in 1..Len(DashboardCalls) |->
                      IF responseOk(dashboard.calls[i]) /\ parsed[i] THEN 1
                      ELSE 0],
          !.error = Null, !.loading = FALSE, !.isRetrying = FALSE]
  /\ UNCHANGED <<sensorVars, live, listing, receiver, visionVars>>

\* the page is left and opened again: a new component instance
DashRemount ==
  /\ dashboard.pc = "shown"
  /\ dashboard' = MountedDashboard
  /\ UNCHANGED <<sensorVars, live, listing, receiver, visionVars>>

\* --------------------------------------------- usePiReceiver hook (browser)
\* the client keeps as many scans as the server keeps results
CLIENT_MAX_SCANS == 50

\* useState of the hook; seen counts the new_result events of the current
\* connection the hook has handled
IdleReceiver == [isConnected |-> FALSE, seen |-> 0, piScans |-> <<>>]

\* convertPiResultToSolarScan: the id, the severity and the risk score of
\* the SolarScan the client builds, scores in tenths
convertPiResultToSolarScan(piResult) ==
  [id |-> <<"pi-", piResult.capture_id>>,
   severity |-> IF piResult.health_score < 300 THEN "CRITICAL"
                ELSE IF piResult.health_score < 500 THEN "HIGH"
                ELSE IF piResult.health_score < 750 THEN "MODERATE"
                ELSE "LOW",
   riskScore |-> 1000 - piResult.health_score]

\* socket.on('connect')
HookOnConnect(o) ==
  /\ sockets[o].connected
  /\ ~receiver.isConnected
  /\ receiver' = [receiver EXCEPT !.isConnected = TRUE]
  /\ UNCHANGED <<sensorVars, live, listing, dashboard, visionVars>>

\* socket.on('disconnect'): what the old connection had not delivered is
\* lost; piScans is kept
HookOnDisconnect(o) ==
  /\ ~sockets[o].connected
  /\ receiver.isConnected
  /\ receiver' = [receiver EXCEPT !.isConnected = FALSE, !.seen = 0]
  /\ UNCHANGED <<sensorVars, live, listing, dashboard, visionVars>>

\* socket.on('new_result'):
\* setPiScans(prev => [solarScan, ...prev].slice(0, 50))
HookOnNewResult(o) ==
  LET id == sockets[o].received[receiver.seen + 1]
      data == CHOOSE res \in {piResults[i] : i \in 1..Len(piResults)} :
                res.id = id
      solarScan_ == convertPiResultToSolarScan(data)
      next == <<solarScan_>> \o receiver.piScans
  IN /\ sockets[o].connected
     /\ receiver.isConnected
     /\ receiver.seen < Len(sockets[o].received)
     /\ receiver' = [receiver EXCEPT
          !.seen = receiver.seen + 1,
          !.piScans = SubSeq(next, 1, Min(Len(next), CLIENT_MAX_SCANS))]
     /\ UNCHANGED <<sensorVars, live, listing, dashboard, visionVars>>

ClientInit == dashboard = MountedDashboard /\ receiver = IdleReceiver

Init == SensorInit /\ QueryInit /\ VisionInit /\ ClientInit

\* the dashboard page alone; the 15 s timer never fires because each fetch
\* ends within its own 10 s
DashboardNext ==
  \/ DashFetchData
  \/ \E i \in 1..Len(DashboardCalls) : \E outcome \in FetchOutcomes :
       DashSettle(i, outcome)
  \/ \E parsed \in [1..Len(DashboardCalls) -> BOOLEAN] : DashShow(parsed)
  \/ DashRemount

SpecDashboard == Init /\ [][DashboardNext]_vars

RequestReceive(r, bodies) ==
  /\ \E body \in bodies : Receive(r, body)
  /\ UNCHANGED <<queryVars, visionVars>>

RequestContinue(r) ==
  /\ \/ FindPanels(r)
     \/ UpsertDevice(r)
     \/ CreateReading(r)
     \/ UpdatePanel(r)
     \/ AggregateOutput(r)
     \/ UpsertGeneration(r)
  /\ UNCHANGED <<queryVars, visionVars>>

RequestStep(r, bodies) == RequestReceive(r, bodies) \/ RequestContinue(r)

RequestFail(r) == DbError(r) /\ UNCHANGED <<queryVars, visionVars>>

\* concurrent sensor-update requests while time passes
Next ==
  \/ Advance(MaxRaceClock)
  \/ \E r \in ReqIds : RequestStep(r, RaceSensorBodies)
  \/ \E r \in ReqIds : RequestFail(r)

Spec == Init /\ [][Next]_vars

\* one sensor-update request while the seed script rebuilds the Panel table
SeedNext ==
  \/ SeedDeleteMany
  \/ SeedCreatePanel
  \/ RequestStep(1, SensorBodies)
  \/ RequestFail(1)

SpecSeed == Init /\ [][SeedNext]_vars

\* sensor-update requests one after the other, live-status queries and panel
\* listings, all interleaved, while time passes
LiveBodies ==
  {Body(DevStr("ESP_01"), JNum(210), JNum(50), JNum(600)),
   Body(DevStr("ESP_01"), JNum(150), JNum(50), JNum(300)),
   Body(DevStr("ESP_02"), JNum(120), JNum(50), JNum(300)),
   Body(DevStr("ESP_02"), JNum(210), JNum(50), JNum(0))}

\* the response has been sent: the handler instance is gone
CloseRequest(r) ==
  /\ req[r].pc = "done"
  /\ req' = [req EXCEPT ![r] = IdleReq]
  /\ UNCHANGED <<clock, solarPanel, seed, espDevice, espSensorReading,
                 powerGeneration, queryVars, visionVars>>

LiveClose ==
  /\ live.pc = "done"
  /\ live' = IdleLive
  /\ UNCHANGED <<sensorVars, listing, clientVars, visionVars>>

ListClose ==
  /\ listing.pc = "done"
  /\ listing' = IdleListing
  /\ UNCHANGED <<sensorVars, live, clientVars, visionVars>>

\* readings at the edges of the accepted range: negative, zero and ordinary
\* values, and one that is not finite
RangeBodies ==
  {Body(DevStr("ESP_01"), JNum(210), JNum(50), JNum(0 - 300)),
   Body(DevStr("ESP_01"), JNum(0 - 210), JNum(0 - 50), JNum(300)),
   Body(DevStr("ESP_01"), JNum(210), JNum(50), JNum(0)),
   Body(DevStr("ESP_02"), JNum(210), JNum(50), JNum(300)),
   Body(DevStr("ESP_02"), JNum(210), JNum(50), JNum(600)),
   Body(DevStr("ESP_02"), JStr(<<"2", "1">>), JStr(<<"5">>), JInf)}

\* sensor-updates one after the other
RangeNext ==
  \/ /\ Len(espSensorReading) < MaxRangeReadings
     /\ RequestReceive(1, RangeBodies)
  \/ RequestContinue(1)
  \/ CloseRequest(1)

SpecRange == Init /\ [][RangeNext]_vars

\* the captures of one Pi, numbered from 1: with a whole and a fractional
\* health score, and with a thermal block that states severity and risk
ReceiverPiData ==
  {[PiData(Some(n), TRUE, 0) EXCEPT !.health_score = Some(h)] :
     n \in 1..MaxReceiverScans, h \in {900, 204}}
    \cup {[PiData(Some(n), TRUE, 0) EXCEPT !.health_score = Some(400),
             !.thermal = Some(ThermalBlock(Some("LOW"), Some(100)))] :
            n \in 1..MaxReceiverScans}

\* vision results arrive while the browser of the receiver hook connects,
\* loses its connection and reconnects; the client reconnects after it has
\* seen its disconnect, and no more once its list holds MaxClientScans
ReceiverNext ==
  \/ /\ Len(solarScan) < MaxReceiverScans
     /\ \E data \in ReceiverPiData :
          data.capture_id = Some(Len(solarScan) + 1) /\ PiReceive(data)
  \/ PiCreateScan
  \/ PiBroadcast
  \/ PiClose
  \/ /\ ~receiver.isConnected
     /\ Len(receiver.piScans) < MaxClientScans
     /\ Connect(1)
  \/ Disconnect(1)
  \/ HookOnConnect(1)
  \/ HookOnDisconnect(1)
  \/ HookOnNewResult(1)

SpecReceiver == Init /\ [][ReceiverNext]_vars

\* the dashboard polls: sensor-updates arrive while time passes, and the
\* dashboard client awaits each of its fetches before it issues the next
LiveNext ==
  \/ Advance(MaxClock)
  \/ /\ Len(espSensorReading) < MaxReadings
     /\ RequestReceive(1, LiveBodies)
  \/ RequestContinue(1)
  \/ CloseRequest(1)
  \/ /\ listing.pc = "idle"
     /\ LiveStep
  \/ LiveClose
  \/ /\ live.pc = "idle"
     /\ ListStep
  \/ ListClose

SpecLive == Init /\ [][LiveNext]_vars

\* the instants of the history scenario: two in the first 30 s bucket, the
\* last instant of that bucket, the first of the next, and two later ones
HistoryInstants == {0, 10000, 29999, 30000, 35000, 36000}

AdvanceTo(instants) ==
  /\ \E t \in instants : t > clock /\ clock' = t
  /\ UNCHANGED <<solarPanel, seed, espDevice, espSensorReading,
                 powerGeneration, req, queryVars, visionVars>>

HistoryBodies ==
  {Body(DevStr("ESP_01"), JNum(210), JNum(50), JNum(300)),
   Body(DevStr("ESP_01"), JNum(210), JNum(50), JNum(310)),
   Body(DevStr("ESP_01"), JNum(210), JNum(50), JNum(290)),
   Body(DevStr("ESP_02"), JNum(210), JNum(50), JNum(500))}

\* devices post their readings while time passes and the dashboard polls
\* live-status between two postings
HistoryNext ==
  \/ AdvanceTo(HistoryInstants)
  \/ /\ Len(espSensorReading) < MaxHistoryReadings
     /\ live.pc = "idle"
     /\ RequestReceive(1, HistoryBodies)
  \/ RequestContinue(1)
  \/ CloseRequest(1)
  \/ /\ req[1].pc = "idle"
     /\ LiveStep
  \/ LiveClose

SpecHistory == Init /\ [][HistoryNext]_vars

\* events of the vision pipeline: capture_id missing, report missing, and
\* well-formed captures with up to MaxCrops panel crops
ScanPiData ==
  {PiData(Null, TRUE, 1), PiData(Some(7), FALSE, 1)}
    \cup {PiData(Some(7), TRUE, n) : n \in 0..MaxCrops}

\* scans arrive on both creation paths
ScanNext ==
  \/ /\ Len(solarScan) < MaxScans
     /\ \E data \in ScanPiData : PiReceive(data)
  \/ PiCreateScan
  \/ PiDbError
  \/ PiBroadcast
  \/ PiClose
  \/ /\ Len(solarScan) < MaxScans
     /\ \E panels \in 0..MaxCrops : ScanReceive(panels)
  \/ ScanCreateScan
  \/ ScanCreateScanError
  \/ ScanCreateDetection
  \/ ScanDetectionError
  \/ ScanClose

SpecScan == Init /\ [][ScanNext]_vars

BacklogPiData == {PiData(Some(0), TRUE, 1), PiData(Some(7), TRUE, 1)}

\* vision ingestions while browsers connect
BacklogNext ==
  \/ /\ Len(solarScan) < MaxIngest
     /\ \E data \in BacklogPiData : PiReceive(data)
  \/ PiCreateScan
  \/ PiDbError
  \/ PiBroadcast
  \/ PiClose
  \/ \E o \in ObserverIds : Connect(o)

SpecBacklog == Init /\ [][BacklogNext]_vars

\* base64 text as the Pi sends it, and the same image sent as a data URL
RawImage == Some(<<"QUJD">>)
DataUrlImage == Some(<<"data:image/", "png;base64,", "QUJD">>)

\* captures with embedded images
ImagePiData ==
  {[PiData(Some(7), TRUE, 0) EXCEPT !.health_score = Some(900),
      !.frame_b64 = RawImage],
   [PiData(Some(7), TRUE, 0) EXCEPT !.health_score = Some(900),
      !.frame_b64 = RawImage, !.thermal_b64 = DataUrlImage],
   [PiData(Some(7), TRUE, 1) EXCEPT !.health_score = Some(900),
      !.thermal_b64 = RawImage, !.image_b64 = <<RawImage>>],
   [PiData(Some(7), TRUE, 1) EXCEPT !.health_score = Some(900),
      !.image_b64 = <<DataUrlImage>>, !.thermal_image_b64 = <<RawImage>>]}

\* health scores around the limits of the severity bands and of the clamp,
\* in tenths: whole, fractional, above 100 and below 0
HealthScores == {0, 200, 204, 205, 299, 300, 400, 499, 500, 600, 749, 750,
                 900, 1000, 1500, 0 - 200}

ThermalBlocks ==
  {ThermalBlock(Some("HIGH"), Some(555)), ThermalBlock(Null, Null),
   ThermalBlock(Some("LOW"), Null)}

\* captures with a health score and without images; the thermal block is
\* missing, sent as thermal, sent as the legacy thermal_stats, or both
ScorePiData ==
  {[PiData(Some(7), TRUE, 0) EXCEPT !.health_score = Some(h)] : h \in HealthScores}
    \cup {PiData(Some(7), TRUE, 0)}
    \cup {[PiData(Some(7), TRUE, 0) EXCEPT !.health_score = Some(400),
             !.thermal = Some(b)] : b \in ThermalBlocks}
    \cup {[PiData(Some(7), TRUE, 0) EXCEPT !.health_score = Some(400),
             !.thermal_stats = Some(b)] : b \in ThermalBlocks}
    \cup {[PiData(Some(7), TRUE, 0) EXCEPT !.health_score = Some(400),
             !.thermal = Some(ThermalBlock(Null, Null)),
             !.thermal_stats = Some(ThermalBlock(Some("HIGH"), Some(555)))]}

VisionPiData ==
  ImagePiData \cup ScorePiData
    \cup {PiData(Null, TRUE, 0), PiData(Some(7), FALSE, 0), PiData(Null, FALSE, 1)}

\* vision results arrive while a browser connects and disconnects
VisionNext ==
  \/ /\ Len(solarScan) < MaxVisionScans
     /\ \E data \in VisionPiData : PiReceive(data)
  \/ PiCreateScan
  \/ PiDbError
  \/ PiBroadcast
  \/ PiClose
  \/ \E o \in ObserverIds : Connect(o)
  \/ \E o \in ObserverIds : Disconnect(o)

SpecVision == Init /\ [][VisionNext]_vars

\* ================================================================== claims
Done200(r) == req[r].pc = "done" /\ req[r].response.status = 200
Failed(r) == req[r].pc = "done" /\ req[r].response.status # 200

\* a field that is missing or not numeric
NotNumeric(v) ==
  \/ v.t = "undefined"
  \/ v.t = "number" /\ ~v.fin
  \/ v.t = "string" /\ \A i \in 1..Len(v.s) : ~IsDigit(v.s[i])
  \/ v.t = "string" /\ \E i \in 1..Len(v.s) : ~IsDigit(v.s[i]) /\ v.s[i] \notin {" ", "-"}

DeviceIdMissing(body) == body.device_id.t = "undefined" \/ body.device_id.id = ""

InvalidBody(body) ==
  \/ DeviceIdMissing(body)
  \/ NotNumeric(body.voltage) \/ NotNumeric(body.current) \/ NotNumeric(body.power)

UnmappedBody(body) ==
  /\ ~InvalidBody(body)
  /\ body.device_id.id \notin DOMAIN deviceToPanelMap

TablesUnchanged ==
  UNCHANGED <<solarPanel, espDevice, espSensorReading, powerGeneration>>

\* C3: a well-formed sensor-update for a device that is no key of
\* deviceToPanelMap is answered 404 with an error and the step that handles it
\* leaves the Device, Reading and Panel tables unchanged; every Device row's
\* identifier is a key of the mapping.
C3_UnmappedDeviceRejected ==
  [][/\ \A r \in ReqIds :
          req'[r].pc # "idle" /\ UnmappedBody(req'[r].body) =>
            /\ req'[r].pc = "done"
            /\ req'[r].response.status = 404
            /\ "error" \in DOMAIN req'[r].response.body
            /\ (req[r].pc = "idle" => TablesUnchanged)
     /\ \A d \in AllDeviceIds :
          espDevice'[d].exists => d \in DOMAIN deviceToPanelMap]_vars

C3_Witness ==
  /\ \E r \in ReqIds :
       /\ req[r].pc = "done"
       /\ req[r].body.device_id.id = "ESP_99"
       /\ req[r].response.status = 404
  /\ \E d \in AllDeviceIds : espDevice[d].exists

\* C4: a sensor-update whose device_id is missing, or one of whose voltage,
\* current, power is missing or not numeric, is answered 400 with an error, and
\* the step that handles it writes no table; it never reaches a database call.
C4_ValidationRejectsWithoutWrite ==
  [][\A r \in ReqIds :
       req'[r].pc # "idle" /\ InvalidBody(req'[r].body) =>
         /\ req'[r].pc = "done"
         /\ req'[r].response.status = 400
         /\ "error" \in DOMAIN req'[r].response.body
         /\ (req[r].pc = "idle" => TablesUnchanged)]_vars

C4_Witness ==
  \E r \in ReqIds :
    /\ req[r].pc = "done"
    /\ req[r].body.device_id.id = "ESP_01"
    /\ req[r].body.voltage = JStr(<<"a", "b", "c">>)
    /\ req[r].response.status = 400
    /\ \E d \in AllDeviceIds : espDevice[d].exists

ReadingOf(r) ==
  [deviceId |-> req[r].device_id, voltage |-> req[r].voltage,
   currentMa |-> req[r].current, powerMw |-> req[r].power,
   recordedAt |-> req[r].now]

DeviceRowOf(r) ==
  [exists |-> TRUE, lastSeenAt |-> req[r].now, latestVoltage |-> req[r].voltage,
   latestCurrentMa |-> req[r].current, latestPowerMw |-> req[r].power]

ReadingCount(row) ==
  Cardinality({i \in 1..Len(espSensorReading) : espSensorReading[i] = row})

\* two completed requests for one device, and no third request that may have
\* written for it
TwoCompleted(r1, r2) ==
  /\ r1 < r2
  /\ Done200(r1) /\ Done200(r2)
  /\ req[r1].device_id = req[r2].device_id
  /\ \A q \in ReqIds \ {r1, r2} :
       \/ req[q].pc = "idle"
       \/ req[q].pc = "done" /\ req[q].response.status \in {400, 404}
       \/ req[q].pc # "done" /\ req[q].device_id # req[r1].device_id

\* C7: when two concurrent sensor-updates for one device have both completed,
\* the Reading table holds a row for each of them, the Device row exists and
\* its lastSeenAt, voltage, current and power are those of one of the two.
C7_NoLostUpdate ==
  \A r1, r2 \in ReqIds :
    TwoCompleted(r1, r2) =>
      /\ ReadingCount(ReadingOf(r1)) >= (IF ReadingOf(r1) = ReadingOf(r2) THEN 2 ELSE 1)
      /\ ReadingCount(ReadingOf(r2)) >= (IF ReadingOf(r1) = ReadingOf(r2) THEN 2 ELSE 1)
      /\ espDevice[req[r1].device_id] \in {DeviceRowOf(r1), DeviceRowOf(r2)}

\* the two requests interleaved: the later upsert is the first one's, the
\* later Reading is the second one's
C7_Witness ==
  \E r1, r2 \in ReqIds :
    /\ TwoCompleted(r1, r2)
    /\ req[r1].now # req[r2].now
    /\ req[r1].voltage # req[r2].voltage
    /\ espDevice[req[r1].device_id] = DeviceRowOf(r1)
    /\ espSensorReading[Len(espSensorReading)] = ReadingOf(r1)
    /\ espSensorReading[1] = ReadingOf(r2)

PanelCarries(u) ==
  /\ solarPanel[u.panelId].exists
  /\ solarPanel[u.panelId].status = u.status
  /\ solarPanel[u.panelId].currentOutput = u.currentOutput
  /\ solarPanel[u.panelId].efficiency = u.efficiency

AllPanelsFrom(r) ==
  \A i \in 1..Len(req[r].response.body.panels) :
    PanelCarries(req[r].response.body.panels[i])

\* C8: when two concurrent sensor-updates for one device have both completed,
\* all panels of the device carry the status, output and efficiency written by
\* one and the same request.
C8_PanelsFromOneReading ==
  \A r1, r2 \in ReqIds :
    TwoCompleted(r1, r2) => AllPanelsFrom(r1) \/ AllPanelsFrom(r2)

\* C10: every failure of the sensor-update endpoint and of the vision event
\* is answered in the shape {success: false, error: <message>}.
C10_UniformFailureShape ==
  /\ \A r \in ReqIds :
       Failed(r) =>
         /\ DOMAIN req[r].response.body = {"success", "error"}
         /\ req[r].response.body.success = FALSE
  /\ (pi.pc = "done" /\ ~pi.response[1].success) =>
       DOMAIN pi.response[1] = {"success", "error"}

\* ---------------------------------------------------------------- C5
\* C5: scan creation is all-or-nothing on both creation paths.  In every
\* reachable state every Scan row has all the PanelDetection rows of its
\* input, and every PanelDetection row belongs to a Scan row.
C5_ScanAllOrNothing ==
  /\ \A k \in 1..Len(solarScan) :
       DetectionRows(solarScan[k].id, solarScan[k].totalPanels) \subseteq
         {[scanId |-> d.scanId, panelNumber |-> d.panelNumber] : d \in panelDetection}
  /\ \A d \in panelDetection : d.scanId \in 1..Len(solarScan)

\* ---------------------------------------------------------------- C6
RECURSIVE Reverse(_)
Reverse(s) == IF s = <<>> THEN <<>> ELSE Append(Reverse(Tail(s)), Head(s))

\* the ids of the (at most) MAX_PI_RESULTS last entries of log, newest first
NewestFirst(log) ==
  Reverse(SubSeq(log, Max(1, Len(log) - MAX_PI_RESULTS + 1), Len(log)))

\* what was ingested before the socket o connected
IngestedBefore(o) == SubSeq(ingested, 1, sockets[o].connectedAt)

\* what the socket o was replayed when it connected
Replayed(o) ==
  SubSeq(sockets[o].received, 1, Min(sockets[o].connectedAt, MAX_PI_RESULTS))

\* C6: backlog cap.  After any sequence of successful vision ingestions the
\* backlog holds at most 50 results, exactly the 50 most recently ingested
\* (all if fewer), newest first; an observer that connects is replayed
\* exactly those entries in that order.
C6_BacklogCap ==
  /\ Len(piResults) <= MAX_PI_RESULTS
  /\ [i \in 1..Len(piResults) |-> piResults[i].id] = NewestFirst(ingested)
  /\ \A o \in ObserverIds :
       sockets[o].connected => Replayed(o) = NewestFirst(IngestedBefore(o))

\* more than 50 results were ingested, and a socket connected after that
C6_Witness ==
  /\ Len(ingested) > MAX_PI_RESULTS
  /\ Len(piResults) = MAX_PI_RESULTS
  /\ \E o \in ObserverIds :
       /\ sockets[o].connected
       /\ sockets[o].connectedAt > MAX_PI_RESULTS
       /\ Len(sockets[o].received) >= MAX_PI_RESULTS

\* ---------------------------------------------------------------- C9
\* the positions of `received` at which the result id was sent
Deliveries(received, id) == {j \in 1..Len(received) : received[j] = id}

\* C9: replay and appends interleave safely.  A connected observer has
\* received each ingested result exactly once: in the replay if the result
\* was appended before the observer connected and was within the cap then,
\* in a live broadcast if it was appended after; and no result twice.
C9_ExactlyOnce ==
  \A o \in ObserverIds :
    sockets[o].connected =>
      LET at == sockets[o].connectedAt
          replayLen == Min(at, MAX_PI_RESULTS)
      IN \A k \in 1..Len(ingested) :
           LET sent == Deliveries(sockets[o].received, ingested[k])
           IN /\ Cardinality(sent) <= 1
              /\ k > at => /\ Cardinality(sent) = 1
                           /\ \A j \in sent : j > replayLen
              /\ (k <= at /\ k > at - MAX_PI_RESULTS) =>
                   /\ Cardinality(sent) = 1
                   /\ \A j \in sent : j <= replayLen

\* an observer connected after results were appended, results were appended
\* after it connected, and one more result is saved but not yet appended
C9_Witness ==
  \E o \in ObserverIds :
    /\ sockets[o].connected
    /\ sockets[o].connectedAt >= 1
    /\ Len(ingested) >= sockets[o].connectedAt + 2
    /\ Len(solarScan) > Len(ingested)

\* --------------------------------------------------------------- C11
\* the handler has acknowledged the ingestion of the event it holds
PiIngested == pi.pc = "done" /\ pi.response[1].success

\* the broadcast result of the event the handler holds
PiResult == CHOOSE res \in {piResults[i] : i \in 1..Len(piResults)} :
              res.id = pi.savedScan

\* the PanelDetection row i of the event the handler holds
PiDetection(i) == CHOOSE d \in panelDetection :
                    d.scanId = pi.savedScan /\ d.panelNumber = i

\* one of the writes of the event the handler holds threw
SomeWriteFailed ==
  \/ ~pi.fs.frame
  \/ ~pi.fs.thermal
  \/ \E i \in 1..pi.data.panel_crops : ~pi.fs.crop[i] \/ ~pi.fs.cropThermal[i]

\* C11: partial-asset failure.  When the write of an embedded image fails,
\* the reference of that image is null in the persisted Scan and
\* PanelDetection rows and in the broadcast result of the ingestion.
C11_FailedImageLeftNull ==
  PiIngested =>
    /\ ~pi.fs.frame =>
         /\ solarScan[pi.savedScan].rgbImageUrl = Null
         /\ PiResult.main_image_web = Null
    /\ ~pi.fs.thermal =>
         /\ solarScan[pi.savedScan].thermalImageUrl = Null
         /\ PiResult.thermal_image_web = Null
    /\ \A i \in 1..pi.data.panel_crops :
         /\ ~pi.fs.crop[i] =>
              /\ PiDetection(i).cropImageUrl = Null
              /\ PiResult.panel_crops[i].web_path = Null
         /\ ~pi.fs.cropThermal[i] =>
              /\ PiDetection(i).thermalCropImageUrl = Null
              /\ PiResult.panel_crops[i].thermal_web_path = Null

\* --------------------------------------------------------------- C12
\* a reference into the image storage served under /api/pi-images
IsStorageReference(url) == url # Null /\ url[1][1] = "/api/pi-images/"

\* an image field of a result is absent or a storage reference
ResolvedImage(url) == url = Null \/ IsStorageReference(url)

\* the observers that were connected when the result of the event the
\* handler holds was broadcast and still are
ObserversAtBroadcast ==
  {o \in ObserverIds : sockets[o].connected
                       /\ sockets[o].connectedAt < Len(ingested)}

\* C12: after a successful vision ingestion every connected observer has
\* been sent the result once as new_result and once as new-solar-scan, and
\* the main image, the thermal image and the crop images of that new_result
\* are storage references, never the embedded base64 data.
C12_BroadcastResolvedImages ==
  PiIngested =>
    /\ \A o \in ObserversAtBroadcast :
         /\ Cardinality(Deliveries(sockets[o].received, pi.savedScan)) = 1
         /\ Cardinality(Deliveries(sockets[o].notified, pi.savedScan)) = 1
    /\ ResolvedImage(PiResult.main_image_web)
    /\ ResolvedImage(PiResult.thermal_image_web)
    /\ \A i \in 1..Len(PiResult.panel_crops) :
         /\ ResolvedImage(PiResult.panel_crops[i].web_path)
         /\ ResolvedImage(PiResult.panel_crops[i].thermal_web_path)

\* --------------------------------------------------------------- C13
\* the Scan row of the event the handler holds has been persisted
PiScanPersisted ==
  /\ pi.savedScan \in 1..Len(solarScan)
  /\ solarScan[pi.savedScan].source = "pi_analysis_result"

\* an observer that was sent an earlier result has gone and missed the
\* broadcast of the event the handler holds
ObserverMissedBroadcast ==
  \E o \in ObserverIds :
    /\ ~sockets[o].connected
    /\ sockets[o].received # <<>>
    /\ Deliveries(sockets[o].received, pi.savedScan) = {}

\* C13: the handler of a pi_analysis_result event emits exactly one
\* pi-analysis-received response, at its end; the response reports success
\* with the scan id exactly when the Scan row was persisted, whichever
\* observers the broadcast reached.
C13_AckFollowsPersistence ==
  /\ pi.pc # "done" => pi.response = Null
  /\ pi.pc = "done" =>
       /\ Len(pi.response) = 1
       /\ pi.response[1].success <=> PiScanPersisted
       /\ pi.response[1].success =>
            pi.response[1] = [success |-> TRUE, scanId |-> pi.savedScan]

C13_Witness == PiIngested /\ PiScanPersisted /\ ObserverMissedBroadcast

\* --------------------------------------------------------------- C14
\* every processing order of a sequence of readings
Orders(readings) ==
  {[i \in 1..Len(readings) |-> readings[p[i]]] :
     p \in Permutations(1..Len(readings))}

\* the readings of one device that fall in the bucket starting at bucketMs
InBucket(readings, bucketMs, deviceId) ==
  {readings[i] : i \in {j \in 1..Len(readings) :
      /\ readings[j].deviceId = deviceId
      /\ readings[j].recordedAt >= bucketMs
      /\ readings[j].recordedAt < bucketMs + DEVICE_ONLINE_THRESHOLD_MS}}

\* the readings of a set were recorded at different instants
DistinctInstants(rs) ==
  \A a \in rs : \A b \in rs : a.recordedAt = b.recordedAt => a = b

\* the reading of a set that was recorded last
Latest(rs) == CHOOSE a \in rs : \A b \in rs : b.recordedAt <= a.recordedAt

\* the readings query of live-status has been answered
ReadingsFetched == live.pc = "respond"

\* C14: within one 30 s bucket the aggregator keeps, for each device, the
\* reading with the greatest recordedAt among the device's readings of that
\* bucket, in whatever order the readings are processed, and what it keeps
\* for a device does not depend on the readings of the other devices.
C14_LastWriteWins ==
  ReadingsFetched =>
    \A order \in Orders(live.recentReadings) :
      \A bucketMs \in {bucketMsOf(t) : t \in HistoryInstants} :
        \A d \in MappedDeviceIds :
          LET mine == InBucket(order, bucketMs, d)
              kept == bucketMapOf(order)
              alone == bucketMapOf(SelectSeq(order, LAMBDA x : x.deviceId = d))
          IN IF mine = {}
             THEN bucketMs \in DOMAIN kept => d \notin DOMAIN kept[bucketMs]
             ELSE /\ bucketMs \in DOMAIN kept
                  /\ d \in DOMAIN kept[bucketMs]
                  /\ kept[bucketMs][d] = alone[bucketMs][d]
                  /\ DistinctInstants(mine) => kept[bucketMs][d] = Latest(mine)

\* two readings of one device in one bucket, recorded at different
\* instants, and a reading of another device in the same bucket
C14_Witness ==
  /\ ReadingsFetched
  /\ \E bucketMs \in {bucketMsOf(t) : t \in HistoryInstants} :
       /\ Cardinality(InBucket(live.recentReadings, bucketMs, "ESP_01")) = 2
       /\ DistinctInstants(InBucket(live.recentReadings, bucketMs, "ESP_01"))
       /\ InBucket(live.recentReadings, bucketMs, "ESP_02") # {}

\* ---------------------------------------------------------------- C1
\* the device of a snapshot entry or of a listed panel is not online at
\* the handler's instant: it has no lastSeenAt, or it was last seen more
\* than the threshold ago
Stale(lastSeenAt, nowMs) ==
  \/ lastSeenAt = Null
  \/ nowMs - lastSeenAt[1] > DEVICE_ONLINE_THRESHOLD_MS

LiveAnswered == live.pc = "done" /\ live.response.status = 200
ListAnswered == listing.pc = "done" /\ listing.response.status = 200

\* C1: offline override.  Every device of a live-status snapshot and every
\* panel of a panel listing whose device has no lastSeenAt, or was last
\* seen more than 30 s before the handler's now, is reported offline,
\* whatever voltage, current, power or panel status is stored.
C1_OfflineOverride ==
  /\ LiveAnswered =>
       \A i \in 1..Len(live.response.body.devices) :
         LET e == live.response.body.devices[i]
         IN Stale(e.lastSeenAt, live.now) => e.status = "offline"
  /\ ListAnswered =>
       \A i \in 1..Len(listing.response.body) :
         LET e == listing.response.body[i]
         IN Stale(e.sensorLastUpdated, listing.nowMs) => e.status = "offline"

\* a device with a healthy stored reading, last seen more than 30 s ago,
\* is in a snapshot
StaleHealthyDeviceInSnapshot ==
  /\ LiveAnswered
  /\ \E i \in 1..Len(live.response.body.devices) :
       LET e == live.response.body.devices[i]
       IN /\ e.lastSeenAt # Null
          /\ live.now - e.lastSeenAt[1] > DEVICE_ONLINE_THRESHOLD_MS
          /\ espDevice[e.deviceId].latestVoltage >= 3 * MIN_HEALTHY_PANEL_VOLTAGE
          /\ espDevice[e.deviceId].latestPowerMw > 0
          /\ e.status = "offline"

\* a panel stored healthy behind such a device is in a listing
StaleHealthyPanelInListing ==
  /\ ListAnswered
  /\ \E i \in 1..Len(listing.response.body) :
       LET e == listing.response.body[i]
       IN /\ e.sensorLastUpdated # Null
          /\ listing.nowMs - e.sensorLastUpdated[1] > DEVICE_ONLINE_THRESHOLD_MS
          /\ e.storedStatus = "healthy"
          /\ e.status = "offline"

C1_Witness == StaleHealthyDeviceInSnapshot \/ StaleHealthyPanelInListing

\* ---------------------------------------------------------------- C2
\* the status of an online device whose total voltage is shared by
\* `sharing` panels wired in series, compared without dividing
ClaimedStatus(voltage, power, sharing) ==
  IF voltage < MIN_WARNING_PANEL_VOLTAGE * sharing THEN "fault"
  ELSE IF voltage < MIN_HEALTHY_PANEL_VOLTAGE * sharing \/ power <= 0 THEN "warning"
  ELSE "healthy"

\* the number of panels that share a device
Sharing(deviceId) == Len(deviceToPanelMap[deviceId])

\* C2: online classification.  Every online device of a live-status snapshot
\* and every panel written by an accepted sensor-update has the status of
\* the threshold policy applied to v = device voltage / number of panels
\* sharing the device and to the power p: fault when v < 4.5 V, else warning
\* when v < 6 V or p <= 0, else healthy.
C2_OnlineClassification ==
  /\ LiveAnswered =>
       \A i \in 1..Len(live.response.body.devices) :
         LET e == live.response.body.devices[i]
         IN e.online =>
              e.status = ClaimedStatus(e.voltage, e.powerMw, Sharing(e.deviceId))
  /\ \A r \in ReqIds :
       Done200(r) =>
         \A i \in 1..Len(req[r].response.body.panels) :
           req[r].response.body.panels[i].status =
             ClaimedStatus(req[r].voltage, req[r].power, Sharing(req[r].device_id))

\* --------------------------------------------------------------- C15
\* the power history of the snapshot the handler has answered with
History == live.response.body.powerHistory30s

\* the positions in the Reading table of the readings of a bucket
BucketRows(bucketMs) ==
  {i \in 1..Len(espSensorReading) :
     /\ espSensorReading[i].recordedAt >= bucketMs
     /\ espSensorReading[i].recordedAt < bucketMs + DEVICE_ONLINE_THRESHOLD_MS}

\* the positions of the readings a bucket keeps: for each device the one
\* recorded last, the earliest stored among those of one instant
KeptRows(bucketMs) ==
  {i \in BucketRows(bucketMs) :
     \A j \in BucketRows(bucketMs) :
       espSensorReading[j].deviceId = espSensorReading[i].deviceId =>
         \/ espSensorReading[j].recordedAt < espSensorReading[i].recordedAt
         \/ /\ espSensorReading[j].recordedAt = espSensorReading[i].recordedAt
            /\ i <= j}

RECURSIVE PowerOfRows(_)
PowerOfRows(rows) ==
  IF rows = {} THEN 0
  ELSE LET i == CHOOSE x \in rows : TRUE
       IN espSensorReading[i].powerMw + PowerOfRows(rows \ {i})

\* C15: the power history of a snapshot is a sequence of buckets with
\* strictly ascending starts; the starts are exactly the values
\* floor(recordedAt / 30 s) * 30 s of the stored readings, so that no bucket
\* is empty; each total is the sum of the power of the readings the bucket
\* keeps and each device count is the number of distinct devices in it.
C15_HistoryShape ==
  LiveAnswered =>
    /\ \A i \in 1..Len(History) : \A j \in 1..Len(History) :
         i < j => History[i].timestamp < History[j].timestamp
    /\ {History[i].timestamp : i \in 1..Len(History)} =
         {espSensorReading[i].recordedAt
            - (espSensorReading[i].recordedAt % DEVICE_ONLINE_THRESHOLD_MS) :
              i \in 1..Len(espSensorReading)}
    /\ \A i \in 1..Len(History) :
         /\ BucketRows(History[i].timestamp) # {}
         /\ History[i].totalPowerMw = PowerOfRows(KeptRows(History[i].timestamp))
         /\ History[i].deviceCount =
              Cardinality({espSensorReading[k].deviceId :
                             k \in BucketRows(History[i].timestamp)})
         /\ History[i].deviceCount >= 1

\* a history of two buckets, one of them with a reading that was replaced
\* by a later one of its device
C15_Witness ==
  /\ LiveAnswered
  /\ Len(History) = 2
  /\ \E i \in 1..2 :
       KeptRows(History[i].timestamp) # BucketRows(History[i].timestamp)

\* --------------------------------------------------------------- C16
\* the stored readings are those of ESP_01 recorded at the given instants
\* with the given power, in this order
ReadingsAre(instants, powers) ==
  /\ Len(espSensorReading) = Len(instants)
  /\ \A i \in 1..Len(instants) :
       /\ espSensorReading[i].deviceId = "ESP_01"
       /\ espSensorReading[i].recordedAt = instants[i]
       /\ espSensorReading[i].powerMw = powers[i]

\* live-status was asked at t = 36 s after ESP_01 reported 300, 310 and 290
\* at t = 0, 10 s and 35 s, and has answered
ScenarioAnswered ==
  /\ LiveAnswered
  /\ live.now = 36000
  /\ ReadingsAre(<<0, 10000, 35000>>, <<300, 310, 290>>)

\* C16: when ESP_01 has reported power 300, 310 and 290 at t = 0, 10 s and
\* 35 s, the live status asked at t = 36 s shows ESP_01 online and 1 s
\* stale, and its history has exactly two buckets: the one starting at 0
\* with 310 and the one starting at 30 s with 290.
C16_Scenario ==
  ScenarioAnswered =>
    /\ \E i \in 1..Len(live.response.body.devices) :
         /\ live.response.body.devices[i].deviceId = "ESP_01"
         /\ live.response.body.devices[i].online
         /\ live.response.body.devices[i].staleSeconds = Some(1)
    /\ History = <<[timestamp |-> 0, totalPowerMw |-> 310, deviceCount |-> 1],
                   [timestamp |-> 30000, totalPowerMw |-> 290, deviceCount |-> 1]>>

C16_Witness == ScenarioAnswered

\* --------------------------------------------------------------- C17
\* C17: a step of the live-status handler leaves every Device, Reading,
\* Panel and power-generation row unchanged, and a step that changes a
\* Panel row is a step of a sensor-update request.
C17_LiveStatusReadOnly ==
  [][/\ live' # live => dbVars' = dbVars
     /\ solarPanel' # solarPanel => req' # req]_vars

\* live-status has answered while the tables hold a device, a reading, a
\* panel updated by a sensor-update and a power-generation row
C17_Witness ==
  /\ LiveAnswered
  /\ Len(espSensorReading) > 0
  /\ DOMAIN powerGeneration # {}
  /\ \E d \in MappedDeviceIds : espDevice[d].exists
  /\ \E p \in PanelIds : solarPanel[p].exists /\ solarPanel[p].status # "offline"

\* --------------------------------------------------------------- C18
\* the Device row of a mapped device was seen within the threshold of the
\* instant live-status read the clock
SeenRecently(deviceId) ==
  /\ espDevice[deviceId].exists
  /\ live.now - espDevice[deviceId].lastSeenAt <= DEVICE_ONLINE_THRESHOLD_MS

RECURSIVE LatestPowerOf(_)
LatestPowerOf(ds) ==
  IF ds = {} THEN 0
  ELSE LET d == CHOOSE x \in ds : TRUE
       IN espDevice[d].latestPowerMw + LatestPowerOf(ds \ {d})

\* C18: in a live-status snapshot a device that is not online reports
\* voltage, current and power 0, an online device reports its latest
\* power, and the current generation is the sum of the latest power of the
\* online devices only.
C18_NoStaleGeneration ==
  LiveAnswered =>
    /\ \A i \in 1..Len(live.response.body.devices) :
         LET entry == live.response.body.devices[i]
         IN /\ entry.online <=> SeenRecently(entry.deviceId)
            /\ ~entry.online =>
                 entry.voltage = 0 /\ entry.currentMa = 0 /\ entry.powerMw = 0
            /\ entry.online =>
                 entry.powerMw = espDevice[entry.deviceId].latestPowerMw
    /\ live.response.body.currentGenerationMw =
         LatestPowerOf({d \in MappedDeviceIds : SeenRecently(d)})

\* a snapshot taken while one device with a positive last-known power is
\* offline and another device is online with a positive power
C18_Witness ==
  /\ LiveAnswered
  /\ \E d \in MappedDeviceIds :
       /\ espDevice[d].exists
       /\ ~SeenRecently(d)
       /\ espDevice[d].latestPowerMw > 0
  /\ \E d \in MappedDeviceIds :
       SeenRecently(d) /\ espDevice[d].latestPowerMw > 0

\* --------------------------------------------------------------- C19
\* the thermal block of the event the handler holds: the thermal block
\* when the event has one, else the legacy thermal_stats block
EventThermal ==
  IF pi.data.thermal # Null THEN pi.data.thermal
  ELSE pi.data.thermal_stats

\* the event the handler holds carries a health score and has been ingested
ScoredIngested == PiIngested /\ pi.data.health_score # Null

\* the severity of the health-score bands, the score in tenths
BandOf(h) ==
  CASE h < 300 -> "CRITICAL"
    [] 300 <= h /\ h < 500 -> "HIGH"
    [] 500 <= h /\ h < 750 -> "MODERATE"
    [] h >= 750 -> "LOW"

\* C19: the severity of an ingested vision result, in the Scan row and in
\* the broadcast result, is the severity of the event's thermal block (the
\* thermal block, else the legacy thermal_stats block) when that block
\* states one, and otherwise follows the health score h: CRITICAL below
\* 30, HIGH from 30 to below 50, MODERATE from 50 to below 75, LOW from 75.
C19_Severity ==
  ScoredIngested =>
    LET expected ==
          IF EventThermal # Null /\ EventThermal[1].severity # Null
          THEN EventThermal[1].severity[1]
          ELSE BandOf(pi.data.health_score[1])
    IN /\ PiResult.severity = expected
       /\ solarScan[pi.savedScan].severity = Some(expected)

\* a result whose severity comes from the legacy block although its health
\* score is in another band, after a result whose severity was derived
\* from a health score on the limit of a band
C19_Witness ==
  /\ ScoredIngested
  /\ pi.data.thermal = Null
  /\ pi.data.thermal_stats # Null
  /\ pi.data.thermal_stats[1].severity = Some("LOW")
  /\ pi.data.health_score = Some(400)
  /\ PiResult.severity = "LOW"
  /\ \E i \in 1..Len(piResults) :
       piResults[i].health_score = 300 /\ piResults[i].severity = "HIGH"

\* --------------------------------------------------------------- C20
\* 100 - health score clamped to [0, 100], in tenths
ClampedComplement(h) == Max(0, Min(1000, 1000 - h))

\* the event the handler holds states a thermal risk score
ExplicitRisk == EventThermal # Null /\ EventThermal[1].risk_score # Null

\* the risk score of an ingested result as stated without rounding: the
\* explicit thermal risk_score, otherwise 100 - health score clamped to
\* [0, 100]
C20_RiskScoreExact ==
  ScoredIngested =>
    LET expected == IF ExplicitRisk THEN EventThermal[1].risk_score[1]
                    ELSE ClampedComplement(pi.data.health_score[1])
    IN /\ PiResult.risk_score = expected
       /\ solarScan[pi.savedScan].riskScore = Some(expected)

\* C20: the risk score of an ingested vision result, in the Scan row and in
\* the broadcast result, is the explicit thermal risk_score when the event
\* states one, and otherwise 100 - health score rounded to the nearest
\* integer and clamped to [0, 100].
C20_RiskScoreRounded ==
  ScoredIngested =>
    /\ solarScan[pi.savedScan].riskScore = Some(PiResult.risk_score)
    /\ IF ExplicitRisk
       THEN PiResult.risk_score = EventThermal[1].risk_score[1]
       ELSE LET exact == ClampedComplement(pi.data.health_score[1])
            IN /\ PiResult.risk_score % 10 = 0
               /\ PiResult.risk_score - exact <= 5
               /\ exact - PiResult.risk_score <= 5

\* a result with a fractional health score, 20.4, whose risk score is 80,
\* after a result whose health score above 100 was clamped to risk 0
C20_Witness ==
  /\ ScoredIngested
  /\ ~ExplicitRisk
  /\ pi.data.health_score = Some(204)
  /\ PiResult.risk_score = 800
  /\ \E i \in 1..Len(piResults) :
       piResults[i].health_score = 1500 /\ piResults[i].risk_score = 0

\* --------------------------------------------------------------- C21
\* the event the handler holds lacks its capture identifier or its report
EventIncomplete(event) == event.capture_id = Null \/ ~event.report

\* C21: a pi_analysis_result event that lacks its capture identifier or
\* its report block is answered at once with a {success: false, error}
\* response; while its handler is there no Scan or PanelDetection row is
\* created, the backlog does not change and no observer is sent a result
\* or a notification.
C21_ValidationRejects ==
  [][(pi'.pc # "idle" /\ EventIncomplete(pi'.data)) =>
       /\ pi'.pc = "done"
       /\ pi'.savedScan = 0
       /\ DOMAIN pi'.response[1] = {"success", "error"}
       /\ ~pi'.response[1].success
       /\ UNCHANGED <<solarScan, panelDetection, piResults, ingested>>
       /\ \A o \in ObserverIds :
            \/ /\ sockets'[o].received = sockets[o].received
               /\ sockets'[o].notified = sockets[o].notified
            \/ ~sockets[o].connected /\ sockets'[o].connected]_vars

\* an event without report has been rejected while an observer is
\* connected and the backlog holds an earlier result
C21_Witness ==
  /\ pi.pc = "done"
  /\ ~pi.data.report
  /\ pi.data.capture_id # Null
  /\ ~pi.response[1].success
  /\ Len(piResults) > 0
  /\ \E o \in ObserverIds : sockets[o].connected

\* --------------------------------------------------------------- C22
RECURSIVE OutputOfRows(_)
OutputOfRows(ps) ==
  IF ps = {} THEN 0
  ELSE LET p == CHOOSE x \in ps : TRUE
       IN solarPanel[p].currentOutput + OutputOfRows(ps \ {p})

\* the sum of currentOutput over the Panel rows
PanelOutputSum == OutputOfRows({p \in PanelIds : solarPanel[p].exists})

\* request r is accepted: its upsert of the series is answered and it
\* responds 200
Accepts(r) ==
  /\ req[r].pc = "upsertGeneration"
  /\ req'[r].pc = "done"
  /\ req'[r].response.status = 200

\* C22: the power-generation series has one value per timestamp: an
\* accepted sensor-update sets the value of its own timestamp, replacing
\* the value that timestamp had, and changes no other row; the value is
\* the sum of currentOutput over all Panel rows, read after all the panel
\* updates of that request; nothing else changes the series.
C22_GenerationSeries ==
  [][/\ \A r \in ReqIds :
          /\ (req[r].pc = "aggregate" /\ req'[r].pc = "upsertGeneration") =>
               /\ Len(req[r].updatedPanels) = Len(req[r].panels)
               /\ req'[r].currentGenerationAgg = PanelOutputSum
          /\ Accepts(r) =>
               /\ DOMAIN powerGeneration' = DOMAIN powerGeneration \cup {req[r].now}
               /\ powerGeneration'[req[r].now] = req[r].currentGenerationAgg
               /\ \A t \in DOMAIN powerGeneration \ {req[r].now} :
                    powerGeneration'[t] = powerGeneration[t]
     /\ powerGeneration' # powerGeneration => \E r \in ReqIds : Accepts(r)]_vars

\* two accepted readings of one instant with different sums: the second
\* replaced the value of the first
C22_Witness ==
  /\ \A r \in ReqIds : req[r].pc = "done" /\ req[r].response.status = 200
  /\ req[1].now = req[2].now
  /\ req[1].device_id # req[2].device_id
  /\ DOMAIN powerGeneration = {req[1].now}
  /\ powerGeneration[req[1].now] = PanelOutputSum
  /\ PanelOutputSum > 0

\* --------------------------------------------------------------- C23
\* the dashboard shows the outcome of a fetchData in which a fetch failed
\* or timed out
FetchFailedShown ==
  /\ dashboard.pc = "shown"
  /\ \E i \in 1..Len(DashboardCalls) : dashboard.calls[i] # "ok"

\* C23: when a fetch of the dashboard has failed or timed out, loading has
\* ended, the value of each failed fetch is the last-known one (the default
\* when nothing was loaded), and the error indicator is shown.
C23_DashboardDegrades ==
  FetchFailedShown =>
    /\ ~dashboard.loading
    /\ \A i \in 1..Len(DashboardCalls) :
         dashboard.calls[i] # "ok" => dashboard.data[i] = 0
    /\ dashboard.error # Null

\* --------------------------------------------------------------- C24
\* no sensor-update request is in flight and none was cut by a database error
AllCompleted ==
  \A r \in ReqIds :
    \/ req[r].pc = "idle"
    \/ req[r].pc = "done" /\ req[r].response.status \in {200, 400, 404}

\* the positions of the readings of a device recorded last
LatestRows(deviceId) ==
  {i \in 1..Len(espSensorReading) :
     /\ espSensorReading[i].deviceId = deviceId
     /\ \A j \in 1..Len(espSensorReading) :
          espSensorReading[j].deviceId = deviceId =>
            espSensorReading[j].recordedAt <= espSensorReading[i].recordedAt}

\* C24: once every sensor-update request has completed, the lastSeenAt and
\* the latest voltage, current and power of each Device row are those of a
\* Reading of that device with the greatest recordedAt.
C24_DeviceMatchesLatestReading ==
  AllCompleted =>
    \A d \in MappedDeviceIds :
      espDevice[d].exists =>
        \E i \in LatestRows(d) :
          /\ espDevice[d].lastSeenAt = espSensorReading[i].recordedAt
          /\ espDevice[d].latestVoltage = espSensorReading[i].voltage
          /\ espDevice[d].latestCurrentMa = espSensorReading[i].currentMa
          /\ espDevice[d].latestPowerMw = espSensorReading[i].powerMw

\* --------------------------------------------------------------- C25
\* C25: the status an accepted sensor-update writes to each panel of its
\* device is the status the live-status compositor reports for that device
\* from the Device row of the same reading while the device is online,
\* whatever rows the Panel table holds.
C25_SamePolicy ==
  \A r \in ReqIds :
    Done200(r) =>
      \A i \in 1..Len(req[r].response.body.panels) :
        req[r].response.body.panels[i].status =
          liveDeviceStatus(req[r].device_id, DeviceRowOf(r), req[r].now)

\* --------------------------------------------------------------- C29
\* C29: every panel written by an accepted sensor-update has an efficiency
\* within [0, 100] and a currentOutput that is not negative.
C29_PanelRanges ==
  \A r \in ReqIds :
    Done200(r) =>
      \A i \in 1..Len(req[r].response.body.panels) :
        LET written == req[r].response.body.panels[i]
            row == solarPanel[written.panelId]
        IN /\ written.currentOutput >= 0
           /\ written.efficiency >= 0
           /\ written.efficiency <= 100 * EffScale(row.maxOutput)

\* --------------------------------------------------------------- C30
\* C30: the panel counts of every live-status snapshot add up: healthy +
\* warning + fault + offline = total, also when sensor-update requests are
\* processed while the snapshot is computed.
C30_CountsAddUp ==
  LiveAnswered =>
    live.response.body.healthyPanels + live.response.body.warningPanels
      + live.response.body.faultPanels + live.response.body.offlinePanels
      = live.response.body.totalPanels

\* --------------------------------------------------------------- C26
\* the capture number of a scan of the receiver hook: captures are numbered
\* in the order of their ingestion
CaptureOf(scan) == scan.id[2]

\* C26: the piScans list of the receiver hook holds at most 50 scans and
\* is ordered newest first: a scan at a later index was not ingested after
\* a scan at an earlier index.
C26_ClientNewestFirst ==
  /\ Len(receiver.piScans) <= CLIENT_MAX_SCANS
  /\ \A i \in 1..Len(receiver.piScans) : \A j \in 1..Len(receiver.piScans) :
       i < j => CaptureOf(receiver.piScans[i]) >= CaptureOf(receiver.piScans[j])

\* --------------------------------------------------------------- C27
\* C27: the piScans list of the receiver hook holds each server result at
\* most once, whatever connections, losses of connection and reconnections
\* happened.
C27_NoClientDuplicates ==
  \A i \in 1..Len(receiver.piScans) : \A j \in 1..Len(receiver.piScans) :
    i # j => receiver.piScans[i].id # receiver.piScans[j].id

\* --------------------------------------------------------------- C28
\* C28: the severity and the risk score of every scan the receiver hook
\* derived from a new_result are those of the Scan row persisted for that
\* result.
C28_ClientMatchesScanRow ==
  \A i \in 1..Len(receiver.piScans) :
    LET row == solarScan[CaptureOf(receiver.piScans[i])]
    IN /\ Some(receiver.piScans[i].severity) = row.severity
       /\ Some(receiver.piScans[i].riskScore) = row.riskScore

====
